---------------------------- MODULE Spec2Model ----------------------------
(***************************************************************************)
(* State-machine model of the cockpit backend (nerdfunk-net/cockpit).      *)
(*                                                                         *)
(* Part 1: the scan subsystem, backend/services/scan_service.py and the    *)
(* scan endpoints of backend/routers/scan_and_add.py.                      *)
(*                                                                         *)
(* The service runs on one asyncio event loop: the code between two awaits *)
(* of a coroutine runs without interleaving, so every action below is one  *)
(* such stretch of code.  Blocking calls (ping, SSH, NAPALM) run in        *)
(* threads through asyncio.to_thread; their results are inputs of the      *)
(* action that resumes the coroutine.                                      *)
(***************************************************************************)
EXTENDS Integers, Sequences, FiniteSets, TLC

(***************************************************************************)
(* Program constants (scan_service.py:36-40).                              *)
(***************************************************************************)
JOB_TTL_SECONDS == 24 * 3600
MAX_CONCURRENCY == 10
RETRY_ATTEMPTS == 3
\* _next_job_id multiplies time.time() by 1000: the clock is in milliseconds
MsPerSecond == 1000
\* network.prefixlen < 22 is refused
MinPrefixLen == 22
\* width of an IPv4 address
AddrBits == 32

(***************************************************************************)
(* Bounds of the model.                                                    *)
(***************************************************************************)
\* start requests served in ScanSpec / LiveSpec
MaxScanJobs == 1
\* start requests served in RegistrySpec
MaxJobs == 2
\* start requests served in PoolSpec
MaxPoolJobs == 1
\* start requests served in IdSpec
MaxIdJobs == 3
\* start requests served in StartSpec, and CIDRs in one of its requests
MaxStartJobs == 1
MaxCidrs == 3
\* CacheSpec: threads, distinct data values, longest TTL in seconds, and
\* half-second clock steps
MaxThreads == 2
MaxData == 2
MaxTtl == 1
MaxCacheTicks == 3
\* InventorySpec: devices in the inventory system, and leaf conditions in
\* one operation
MaxDevices == 2
MaxConditions == 2
MaxRows == 2
MaxClients == 2
MaxSubmissions == 1
MaxOnboards == 2
\* VaultSpec: credentials ever created, and initialisation vectors the
\* cipher may draw
MaxCredentials == 2
MaxNonces == 2
\* one-millisecond clock steps within one TTL span, and TTL-long clock steps
MaxSmallTicks == 1
MaxTtlTicks == 1

(***************************************************************************)
(* Addresses and CIDR expansion (ipaddress.ip_network(cidr, strict=False)  *)
(* and IPv4Network.hosts(), as start_job uses them).  A CIDR is a record   *)
(* [addr, prefixlen]; one whose prefixlen is outside 0..32 does not parse. *)
(***************************************************************************)
RECURSIVE Pow2(_)
Pow2(n) == IF n = 0 THEN 1 ELSE 2 * Pow2(n - 1)

Ip(a, b, c, d) == ((a * 256 + b) * 256 + c) * 256 + d

Cidr(a, p) == [addr |-> a, prefixlen |-> p]

ParsesAsNetwork(cidr) ==
    /\ cidr.prefixlen \in 0..AddrBits
    /\ cidr.addr >= 0
    /\ cidr.addr \div Pow2(AddrBits - 2) < 4

\* strict=False: the host bits of the address are masked away
NetworkAddress(cidr) ==
    cidr.addr - (cidr.addr % Pow2(AddrBits - cidr.prefixlen))

\* hosts(): a /32 yields its one address, a /31 both addresses, any other
\* network every address but the network and the broadcast address
Hosts(cidr) ==
    LET net  == NetworkAddress(cidr)
        size == Pow2(AddrBits - cidr.prefixlen)
    IN  IF cidr.prefixlen = AddrBits THEN << net >>
        ELSE IF cidr.prefixlen = AddrBits - 1 THEN << net, net + 1 >>
        ELSE [i \in 1..(size - 2) |-> net + i]

SeqRange(s) == {s[i] : i \in 1..Len(s)}

\* fault: the hosts are appended without the seen-before test
AppendAll(targets, hosts) == targets \o hosts

\* the inner loop of start_job: append, in order, every host that is not
\* among the targets and did not come earlier in this network (seen holds
\* both); written without recursion, a /22 has 1022 hosts
AppendUnseen(targets, hosts) ==
    LET seen       == SeqRange(targets)
        numbered   == [i \in DOMAIN hosts |-> << i, hosts[i] >>]
        distinct   == Cardinality(SeqRange(hosts)) = Len(hosts)
        IsNew(h)   == /\ h[2] \notin seen
                      /\ distinct \/ \A j \in 1..(h[1] - 1) : hosts[j] # h[2]
        fresh      == SelectSeq(numbered, IsNew)
    IN  targets \o [k \in DOMAIN fresh |-> fresh[k][2]]

\* the outer loop of start_job: unparsable and oversized networks are skipped
RECURSIVE ExpandTargets(_, _)
ExpandTargets(targets, cidrs) ==
    IF cidrs = << >> THEN targets
    ELSE LET c == Head(cidrs)
         IN  IF ~ParsesAsNetwork(c) \/ c.prefixlen < MinPrefixLen
             THEN ExpandTargets(targets, Tail(cidrs))
             ELSE ExpandTargets(AppendUnseen(targets, Hosts(c)), Tail(cidrs))

(***************************************************************************)
(* State.                                                                  *)
(***************************************************************************)
VARIABLES
    clock,      \* time.time(), in milliseconds
    registry,   \* ScanService._jobs: job_id -> reference of a ScanJob
    heap,       \* the ScanJob objects ever created (reference = index)
    sup,        \* per job: the _run_scan task (pc, targets, credentials)
    worker,     \* per job, per target: the worker(ip) task (pc, tried)
    sem,        \* per job: free permits of the asyncio.Semaphore
    net,        \* around the service: the hosts that may answer a ping, the
                \* answers a host may give to a login, the lists of
                \* credential ids the vault may hold when a scan starts
    deleted,    \* history: jobs removed by DELETE /api/scan/{job_id}
    resp        \* the HTTP response the last step returned, if it was a request

VARIABLES
    cache,      \* CacheService._cache: key -> CacheEntry
    lock,       \* CacheService._lock: the thread that holds it, or NoThread
    thread,     \* the call each thread is in, with its locals and its result
    written     \* history: per key, the entry of the latest set not cleared

cacheVars == << cache, lock, thread, written >>

VARIABLES
    operations, \* InventoryPreviewRequest.operations of the request in hand
    preview     \* the InventoryPreviewResponse to it, once it is served

inventoryVars == << operations, preview >>

VARIABLES
    repository, \* the repository metadata (url, username, token) in force
    disk,       \* the directory repo_path(repository) and what it holds
    gitResult   \* how the last open_or_clone ended

gitVars == << repository, disk, gitResult >>

VARIABLES
    table,      \* the git_repositories table: id -> row
    lastrowid,  \* the AUTOINCREMENT counter of that table
    selected,   \* settings: the id of the selected repository, or NoRow
    dirs,       \* data/git/<sub_path>: what each directory holds
    environ,    \* os.environ, the three GIT_SSL_* variables
    credstore,  \* the credentials table of credentials_manager
    call,       \* per client: the handler coroutine it waits for
    gitcmd,     \* history: the Git command that runs or ran last
    named,      \* history: per row, the credential_name last sent for it
    repoResp    \* the response to the repository request just served

repoVars ==
    << table, lastrowid, selected, dirs, environ, credstore, call, gitcmd,
       named, repoResp >>

VARIABLES
    sms,        \* history: the submissions made to the SMS, oldest first
    files,      \* the inventory files on disk: written_path -> content
    index,      \* per working tree: the staged tree (path -> content)
    commits,    \* per working tree: the commits made here, oldest first
    onboards,   \* the number of onboarding requests received
    served,     \* history: the locals of the handler that just answered
    onbResp     \* the response to the onboarding request just served

onboardVars == << sms, files, index, commits, onboards, served, onbResp >>

VARIABLES
    credentialRows, \* the credentials table: id -> row
    credentialSeq,  \* the AUTOINCREMENT counter of that table
    supplied,       \* history: per row, the password last supplied for it
    vaultResp       \* the response to the credential request just served

vaultVars == << credentialRows, credentialSeq, supplied, vaultResp >>

scanState == << registry, heap, sup, worker, sem, net, deleted, resp >>

\* what the scan service never touches
others ==
    << cacheVars, inventoryVars, gitVars, repoVars, onboardVars, vaultVars >>

\* what the cache service never touches
nonCache ==
    << scanState, inventoryVars, gitVars, repoVars, onboardVars, vaultVars >>

\* what the inventory service never touches
nonInventory ==
    << clock, scanState, cacheVars, gitVars, repoVars, onboardVars,
       vaultVars >>

\* what the Git helpers never touch
nonGit ==
    << clock, scanState, cacheVars, inventoryVars, repoVars, onboardVars,
       vaultVars >>

\* what the repository endpoints never touch
nonRepo ==
    << scanState, cacheVars, inventoryVars, gitVars, onboardVars, vaultVars >>

\* what an onboarding request never touches
nonOnboard ==
    << clock, heap, sup, worker, sem, net, deleted, resp, cacheVars,
       inventoryVars, gitVars, table, lastrowid, selected, credstore, named,
       repoResp, vaultVars >>

\* what the credential endpoints never touch
nonVault ==
    << clock, scanState, cacheVars, inventoryVars, gitVars, repoVars,
       onboardVars >>

vars ==
    << clock, scanState, cacheVars, inventoryVars, gitVars, repoVars,
       onboardVars, vaultVars >>

JobRefs == 1..Len(heap)

NoJob == 0

(***************************************************************************)
(* ScanJob and ScanResult (scan_service.py:43-68).                         *)
(***************************************************************************)
ScanResult(ip, cred_id, found) ==
    [ip |-> ip, credential_id |-> cred_id,
     device_type |-> found.device_type, platform |-> found.platform]

ScanJob(job_id, created, request, total) ==
    [job_id |-> job_id, created |-> created,
     cidrs |-> request.cidrs, credential_ids |-> request.credential_ids,
     discovery_mode |-> request.discovery_mode,
     total_targets |-> total,
     scanned |-> 0, alive |-> 0, authenticated |-> 0, unreachable |-> 0,
     auth_failed |-> 0, driver_not_supported |-> 0,
     state |-> "running", results |-> << >>, errors |-> << >>]

(***************************************************************************)
(* The job registry: _purge_expired, _next_job_id, get_job.                *)
(***************************************************************************)
JobTtl == JOB_TTL_SECONDS * MsPerSecond

\* fault: a job is taken for expired at the very end of its TTL
IsExpiredAtTtl(job, now) == now - job.created >= JobTtl

\* now - job.created > JOB_TTL_SECONDS
IsExpired(job, now) == now - job.created > JobTtl

PurgeExpired(jobs, now) ==
    [id \in {i \in DOMAIN jobs : ~IsExpired(heap[jobs[i]], now)} |-> jobs[id]]

\* f"scan_{int(time.time()*1000)}_{len(self._jobs)+1}"
NextJobId(jobs, now) == << now, Cardinality(DOMAIN jobs) + 1 >>

\* self._jobs.get(job_id)
Lookup(jobs, id) == IF id \in DOMAIN jobs THEN jobs[id] ELSE NoJob

\* every job_id handed out so far: what a client can ask for
KnownIds == {heap[r].job_id : r \in JobRefs}

(***************************************************************************)
(* Counter updates of _process_ip.  No await separates the statements of   *)
(* one update, so each is one step.                                        *)
(***************************************************************************)
\* fault: an unreachable host is not counted as scanned
RecordUnreachableNoScan(job) == [job EXCEPT !.unreachable = @ + 1]

\* lines 183-186
RecordUnreachable(job) ==
    [job EXCEPT !.unreachable = @ + 1, !.scanned = @ + 1]

\* line 188
RecordAlive(job) == [job EXCEPT !.alive = @ + 1]

\* fault: the result names the first supplied credential, not the accepted one
RecordAuthenticatedFirstCred(job, ip, cred_id, found) ==
    [job EXCEPT !.results = Append(@, ScanResult(ip, job.credential_ids[1], found)),
                !.authenticated = @ + 1,
                !.scanned = @ + 1]

\* fault: the host is counted authenticated, its result is not appended
RecordAuthenticatedNoResult(job, ip, cred_id, found) ==
    [job EXCEPT !.authenticated = @ + 1, !.scanned = @ + 1]

\* lines 206-217
RecordAuthenticated(job, ip, cred_id, found) ==
    [job EXCEPT !.results = Append(@, ScanResult(ip, cred_id, found)),
                !.authenticated = @ + 1,
                !.scanned = @ + 1]

\* fault: a host no credential opened is not counted as scanned
RecordAuthFailedUncounted(job) == [job EXCEPT !.auth_failed = @ + 1]

\* lines 219-221
RecordAuthFailed(job) ==
    [job EXCEPT !.auth_failed = @ + 1, !.scanned = @ + 1]

(***************************************************************************)
(* The credential loop of _process_ip up to its next await: a credential   *)
(* that is not in the loaded list (line 194) or whose password cannot be   *)
(* decrypted (lines 198-202) is passed over.  decrypts[k] is the outcome   *)
(* of get_decrypted_password for the k-th supplied credential.             *)
(***************************************************************************)
RECURSIVE NextAttempt(_, _, _, _)
NextAttempt(cred_ids, credentials, decrypts, tried) ==
    LET k == Len(tried) + 1
    IN  IF k > Len(cred_ids) THEN tried
        ELSE IF cred_ids[k] \notin credentials
             THEN NextAttempt(cred_ids, credentials, decrypts,
                              Append(tried, "absent"))
        ELSE IF ~decrypts[k]
             THEN NextAttempt(cred_ids, credentials, decrypts,
                              Append(tried, "decrypt_error"))
        ELSE tried

(***************************************************************************)
(* What _try_authentication returns for one credential (lines 223-255):    *)
(* None, or the classification of the device.                              *)
(***************************************************************************)
NoResult == [device_type |-> "none", platform |-> "none"]

\* _try_cisco_devices: the first driver of ios, nxos_ssh, iosxr that opens
Drivers == << "ios", "nxos_ssh", "iosxr" >>

RECURSIVE TryCiscoDevices(_, _)
TryCiscoDevices(opens, k) ==
    IF k > Len(Drivers) THEN NoResult
    ELSE IF Drivers[k] \in opens
         THEN [device_type |-> "cisco", platform |-> Drivers[k]]
         ELSE TryCiscoDevices(opens, k + 1)

\* answer: what the host does with this credential.  opens: the NAPALM
\* drivers that connect; linux: uname -s answers Linux; ssh: the SSH login
\* succeeds; show_version / hostname: those commands answer
TryAuthentication(mode, answer) ==
    IF mode = "napalm"
    THEN LET cisco == TryCiscoDevices(answer.opens, 1)
         IN  IF cisco # NoResult THEN cisco
             ELSE IF answer.linux
                  THEN [device_type |-> "linux", platform |-> "linux"]
                  ELSE NoResult
    ELSE IF mode = "ssh-login"
    THEN IF ~answer.ssh THEN NoResult
         ELSE IF answer.show_version
              THEN [device_type |-> "cisco", platform |-> "cisco-unknown"]
         ELSE IF answer.hostname
              THEN [device_type |-> "linux", platform |-> "linux-unknown"]
         ELSE [device_type |-> "unknown", platform |-> "ssh-accessible"]
    ELSE NoResult

Answer(opens, linux, ssh, show_version, hostname) ==
    [opens |-> opens, linux |-> linux, ssh |-> ssh,
     show_version |-> show_version, hostname |-> hostname]

\* the answers a live host may give to a login
Answers ==
    { Answer({}, FALSE, FALSE, FALSE, FALSE),
      Answer({"ios"}, TRUE, TRUE, TRUE, FALSE),
      Answer({"nxos_ssh", "iosxr"}, FALSE, TRUE, TRUE, TRUE),
      Answer({}, TRUE, TRUE, FALSE, TRUE),
      Answer({}, FALSE, TRUE, FALSE, FALSE) }

\* the liveness loop of _process_ip (lines 174-181): alive as soon as one of
\* the RETRY_ATTEMPTS pings answers; a ping that raises counts as no answer
PingLoopAlive(pings) == \E attempt \in 1..RETRY_ATTEMPTS : pings[attempt]

PingResults(ip) ==
    [1..RETRY_ATTEMPTS -> (IF ip \in net.up THEN BOOLEAN ELSE {FALSE})]

(***************************************************************************)
(* Inputs.  A start request is what start_job receives; the credential     *)
(* lists list_credentials() may return are net.vault.                      *)
(***************************************************************************)
DiscoveryModes == {"napalm", "ssh-login"}

\* cidrs: Field(..., max_items=10)
MaxCidrItems == 10

Request(cidrs, cred_ids, mode) ==
    [cidrs |-> cidrs, credential_ids |-> cred_ids, discovery_mode |-> mode]

\* 10.0.0.0/31 and 10.0.0.1/32 overlap in 10.0.0.1; the last request
\* carries a CIDR that does not parse and one that is oversized (/21)
ScanRequests ==
    { Request(<< Cidr(Ip(10, 0, 0, 0), 31), Cidr(Ip(10, 0, 0, 1), 32) >>,
              << 7, 9 >>, "napalm"),
      Request(<< Cidr(Ip(10, 0, 0, 9), 32) >>, << 9 >>, "ssh-login"),
      Request(<< Cidr(Ip(10, 0, 0, 9), 33), Cidr(Ip(10, 0, 8, 0), 21),
                 Cidr(Ip(10, 0, 0, 9), 32) >>,
              << 9 >>, "ssh-login") }

RegistryRequests ==
    { Request(<< Cidr(Ip(10, 0, 0, 9), 32) >>, << 9 >>, "napalm") }

\* 10.0.0.0/29 has six hosts, 10.0.0.8/30 two, 10.0.0.12/30 two, and
\* 10.0.0.11/32 one: eleven targets, one more than MAX_CONCURRENCY
PoolRequests ==
    { Request(<< Cidr(Ip(10, 0, 0, 0), 29), Cidr(Ip(10, 0, 0, 8), 30),
                 Cidr(Ip(10, 0, 0, 12), 30), Cidr(Ip(10, 0, 0, 11), 32) >>,
              << 9 >>, "napalm") }

\* 10.0.0.4/30 and 10.0.0.5/30 spell the same network (hosts .5 and .6);
\* 10.0.0.4/31 (hosts .4 and .5) overlaps it in one host; 10.0.0.0/29
\* (hosts .1 to .6) covers the /30 and half of the /31
SmallCidrs ==
    { Cidr(Ip(10, 0, 0, 4), 30), Cidr(Ip(10, 0, 0, 5), 30),
      Cidr(Ip(10, 0, 0, 4), 31), Cidr(Ip(10, 0, 0, 0), 29) }

CidrLists == UNION {[1..n -> SmallCidrs] : n \in 1..MaxCidrs}

\* every order, repetition and overlap of the small CIDRs; a /22, which is
\* the largest network accepted; and the bodies the validators refuse
StartRequests ==
    {Request(cidrs, << 9 >>, "napalm") : cidrs \in CidrLists}
    \cup
    { Request(<< Cidr(Ip(10, 0, 4, 0), 22) >>, << 9 >>, "napalm"),
      Request(<< Cidr(Ip(10, 0, 8, 0), 21) >>, << 9 >>, "napalm"),
      Request(<< Cidr(Ip(10, 0, 0, 0), 30), Cidr(Ip(10, 0, 8, 0), 21) >>,
              << 9 >>, "napalm"),
      Request(<< Cidr(Ip(10, 0, 0, 0), 0) >>, << 9 >>, "ssh-login"),
      Request(<< Cidr(Ip(10, 0, 0, 9), 33) >>, << 9 >>, "napalm"),
      Request(<< >>, << 9 >>, "napalm"),
      Request(<< Cidr(Ip(10, 0, 0, 0), 30) >>, << >>, "napalm"),
      Request(<< Cidr(Ip(10, 0, 4, 0), 22) >>, << >>, "ssh-login"),
      Request(<< Cidr(Ip(10, 0, 0, 0), 30) >>, << 9 >>, "snmp"),
      Request([i \in 1..(MaxCidrItems + 1) |-> Cidr(Ip(10, 0, 0, i), 32)],
              << 9 >>, "napalm") }

AllHosts == Ip(10, 0, 0, 0)..Ip(10, 0, 0, 15)

NoRequest == << >>

NoResponse ==
    [op |-> "none", job_id |-> << >>, found |-> NoJob, listed |-> {},
     request |-> NoRequest]

Response(op, id, found, listed) ==
    [op |-> op, job_id |-> id, found |-> found, listed |-> listed,
     request |-> NoRequest]

\* the 422 answer to a request body that fails validation
Rejected(request) ==
    [Response("rejected", << >>, NoJob, {}) EXCEPT !.request = request]

\* a step of a background task or of the clock answers no request
Background == resp' = NoResponse

(***************************************************************************)
(* Initial state: ScanService.__init__ (line 73), no job.                  *)
(***************************************************************************)
InitService ==
    /\ clock = 0
    /\ registry = << >>
    /\ heap = << >>
    /\ sup = << >>
    /\ worker = << >>
    /\ sem = << >>
    /\ deleted = {}
    /\ resp = NoResponse

(***************************************************************************)
(* start_job (lines 89-126): expand the targets, register the job, create  *)
(* the _run_scan task.  The semaphore is made when the task first runs;    *)
(* nothing uses it before.                                                 *)
(***************************************************************************)
StartJob(request, limit) ==
    /\ Len(heap) < limit
    /\ LET targets == ExpandTargets(<< >>, request.cidrs)
           id      == NextJobId(registry, clock)
           ref     == Len(heap) + 1
       IN  /\ heap' = Append(heap, ScanJob(id, clock, request, Len(targets)))
           /\ registry' = (id :> ref) @@ registry
           /\ sup' = Append(sup, [pc |-> "created", targets |-> targets,
                                  credentials |-> {}])
           /\ worker' = Append(worker, [i \in 1..Len(targets) |->
                                          [pc |-> "idle", tried |-> << >>]])
           /\ sem' = Append(sem, MAX_CONCURRENCY)
           /\ resp' = Response("start", id, ref, {})
    /\ UNCHANGED << clock, net, deleted, others >>

(***************************************************************************)
(* ScanStartRequest (scan_and_add.py lines 26-67): the validators of the   *)
(* request body, and POST /api/scan/start (lines 131-152), which runs only *)
(* on a body that passed them.                                             *)
(***************************************************************************)
\* fault: the size test lets a /21 pass
CidrTooLargeBelow21(cidr) == cidr.prefixlen < MinPrefixLen - 1

\* network.prefixlen < 22 (line 53)
CidrTooLarge(cidr) == cidr.prefixlen < MinPrefixLen

\* validate_cidrs raises (lines 38-54)
CidrsRejected(cidrs) ==
    \/ Len(cidrs) > MaxCidrItems
    \/ cidrs = << >>
    \/ \E i \in 1..Len(cidrs) :
         ~ParsesAsNetwork(cidrs[i]) \/ CidrTooLarge(cidrs[i])

\* validate_cidrs returns cleaned: the first occurrence of every CIDR string
RECURSIVE CleanedCidrs(_, _)
CleanedCidrs(cleaned, cidrs) ==
    IF cidrs = << >> THEN cleaned
    ELSE IF Head(cidrs) \in SeqRange(cleaned)
         THEN CleanedCidrs(cleaned, Tail(cidrs))
         ELSE CleanedCidrs(Append(cleaned, Head(cidrs)), Tail(cidrs))

\* validate_credentials raises (lines 63-67)
CredentialsRejected(cred_ids) == cred_ids = << >>

ValidationFails(request) ==
    \/ request.discovery_mode \notin DiscoveryModes
    \/ CidrsRejected(request.cidrs)
    \/ CredentialsRejected(request.credential_ids)

StartScan(request, limit) ==
    IF ValidationFails(request)
    THEN /\ resp' = Rejected(request)
         /\ UNCHANGED << clock, registry, heap, sup, worker, sem, net,
                         deleted, others >>
    ELSE StartJob([request EXCEPT !.cidrs = CleanedCidrs(<< >>, @)], limit)

(***************************************************************************)
(* _run_scan up to its await (lines 133-163): load the credentials; on a   *)
(* failure mark the job finished and return; else gather one worker task   *)
(* per target.                                                             *)
(***************************************************************************)
RunScanLoadFailed(r) ==
    /\ heap' = [heap EXCEPT ![r].state = "finished"]
    /\ sup' = [sup EXCEPT ![r].pc = "aborted"]
    /\ UNCHANGED worker

RunScanGather(r, credentials) ==
    /\ sup' = [sup EXCEPT ![r].pc = "gather", ![r].credentials = credentials]
    /\ worker' = [worker EXCEPT ![r] =
                    [i \in DOMAIN @ |-> [@[i] EXCEPT !.pc = "queued"]]]
    /\ UNCHANGED heap

RunScan(r) ==
    /\ r \in JobRefs
    /\ sup[r].pc = "created"
    /\ \/ RunScanLoadFailed(r)
       \/ \E credentials \in net.vault : RunScanGather(r, credentials)
    /\ Background
    /\ UNCHANGED << clock, registry, sem, net, deleted, others >>

(***************************************************************************)
(* worker(ip), async with semaphore (lines 158-160).  The tasks were       *)
(* created in target order and asyncio.Semaphore wakes its waiters first   *)
(* come first served: the next permit goes to the first queued worker.     *)
(***************************************************************************)
Queued(r) == {i \in DOMAIN worker[r] : worker[r][i].pc = "queued"}

Inside(r) == {i \in DOMAIN worker[r] : worker[r][i].pc \in {"ping", "auth"}}

\* fault: a worker enters without waiting for a permit
AcquireNoWait(r) ==
    /\ r \in JobRefs
    /\ Queued(r) # {}
    /\ LET i == CHOOSE q \in Queued(r) : \A o \in Queued(r) : q <= o
       IN  worker' = [worker EXCEPT ![r][i].pc = "ping"]
    /\ sem' = [sem EXCEPT ![r] = @ - 1]
    /\ Background
    /\ UNCHANGED << clock, registry, heap, sup, net, deleted, others >>

Acquire(r) ==
    /\ r \in JobRefs
    /\ Queued(r) # {}
    /\ sem[r] > 0
    /\ LET i == CHOOSE q \in Queued(r) : \A o \in Queued(r) : q <= o
       IN  worker' = [worker EXCEPT ![r][i].pc = "ping"]
    /\ sem' = [sem EXCEPT ![r] = @ - 1]
    /\ Background
    /\ UNCHANGED << clock, registry, heap, sup, net, deleted, others >>

\* leaving the async with block gives the permit back
Release(r) == sem' = [sem EXCEPT ![r] = @ + 1]

(***************************************************************************)
(* _process_ip (lines 171-221), from one await to the next.                *)
(***************************************************************************)
\* fault: a host whose credentials were all passed over leaves uncounted
ContinueTrialsSkippedUncounted(r, i, job, tried) ==
    IF Len(tried) = Len(job.credential_ids)
    THEN /\ heap' = [heap EXCEPT ![r] =
               IF \A k \in 1..Len(tried) : tried[k] \in {"absent", "decrypt_error"}
               THEN job ELSE RecordAuthFailed(job)]
         /\ worker' = [worker EXCEPT ![r][i] = [pc |-> "done", tried |-> tried]]
         /\ Release(r)
    ELSE /\ heap' = [heap EXCEPT ![r] = job]
         /\ worker' = [worker EXCEPT ![r][i] = [pc |-> "auth", tried |-> tried]]
         /\ UNCHANGED sem

\* after the credential loop ran on to its next await or to its end
ContinueTrials(r, i, job, tried) ==
    IF Len(tried) = Len(job.credential_ids)
    THEN /\ heap' = [heap EXCEPT ![r] = RecordAuthFailed(job)]
         /\ worker' = [worker EXCEPT ![r][i] = [pc |-> "done", tried |-> tried]]
         /\ Release(r)
    ELSE /\ heap' = [heap EXCEPT ![r] = job]
         /\ worker' = [worker EXCEPT ![r][i] = [pc |-> "auth", tried |-> tried]]
         /\ UNCHANGED sem

\* fault: the credentials are walked whatever the pings returned
PingLoopTriesAnyway(r, i) ==
    /\ r \in JobRefs
    /\ i \in DOMAIN worker[r]
    /\ worker[r][i].pc = "ping"
    /\ \E pings \in PingResults(sup[r].targets[i]) :
         \E decrypts \in [1..Len(heap[r].credential_ids) -> BOOLEAN] :
           ContinueTrials(r, i,
               IF PingLoopAlive(pings) THEN RecordAlive(heap[r])
                                       ELSE RecordUnreachable(heap[r]),
               NextAttempt(heap[r].credential_ids, sup[r].credentials,
                           decrypts, << >>))
    /\ Background
    /\ UNCHANGED << clock, registry, sup, net, deleted, others >>

\* the pings returned: count the host unreachable, or count it alive and
\* walk the credentials up to the first authentication attempt
PingLoop(r, i) ==
    /\ r \in JobRefs
    /\ i \in DOMAIN worker[r]
    /\ worker[r][i].pc = "ping"
    /\ \E pings \in PingResults(sup[r].targets[i]) :
         IF ~PingLoopAlive(pings)
         THEN /\ heap' = [heap EXCEPT ![r] = RecordUnreachable(@)]
              /\ worker' = [worker EXCEPT ![r][i].pc = "done"]
              /\ Release(r)
         ELSE \E decrypts \in [1..Len(heap[r].credential_ids) -> BOOLEAN] :
                ContinueTrials(r, i, RecordAlive(heap[r]),
                    NextAttempt(heap[r].credential_ids, sup[r].credentials,
                                decrypts, << >>))
    /\ Background
    /\ UNCHANGED << clock, registry, sup, net, deleted, others >>

\* _try_authentication returned for the credential under trial
TryCredential(r, i) ==
    /\ r \in JobRefs
    /\ i \in DOMAIN worker[r]
    /\ worker[r][i].pc = "auth"
    /\ LET job   == heap[r]
           tried == worker[r][i].tried
           cred  == job.credential_ids[Len(tried) + 1]
       IN  \E answer \in net.answers :
             LET found == TryAuthentication(job.discovery_mode, answer)
             IN  IF found # NoResult
                 THEN /\ heap' = [heap EXCEPT ![r] =
                            RecordAuthenticated(job, sup[r].targets[i], cred, found)]
                      /\ worker' = [worker EXCEPT ![r][i] =
                            [pc |-> "done", tried |-> Append(tried, "accepted")]]
                      /\ Release(r)
                 ELSE \E decrypts \in [1..Len(job.credential_ids) -> BOOLEAN] :
                        ContinueTrials(r, i, job,
                            NextAttempt(job.credential_ids, sup[r].credentials,
                                        decrypts, Append(tried, "rejected")))
    /\ Background
    /\ UNCHANGED << clock, registry, sup, net, deleted, others >>

(***************************************************************************)
(* _run_scan after gather returned (lines 163-169): every worker task is   *)
(* done; the finally clause marks the job finished.  No call a worker      *)
(* awaits lets an exception out (lines 176-181, 198-202, 403-405, 435-443, *)
(* 509-511), so gather does not raise.                                     *)
(***************************************************************************)
\* fault: gather returns as soon as one worker is done
GatherDoneFirst(r) ==
    /\ r \in JobRefs
    /\ sup[r].pc = "gather"
    /\ \E i \in DOMAIN worker[r] : worker[r][i].pc = "done"
    /\ heap' = [heap EXCEPT ![r].state = "finished"]
    /\ sup' = [sup EXCEPT ![r].pc = "done"]
    /\ Background
    /\ UNCHANGED << clock, registry, worker, sem, net, deleted, others >>

GatherDone(r) ==
    /\ r \in JobRefs
    /\ sup[r].pc = "gather"
    /\ \A i \in DOMAIN worker[r] : worker[r][i].pc = "done"
    /\ heap' = [heap EXCEPT ![r].state = "finished"]
    /\ sup' = [sup EXCEPT ![r].pc = "done"]
    /\ Background
    /\ UNCHANGED << clock, registry, worker, sem, net, deleted, others >>

(***************************************************************************)
(* The endpoints of routers/scan_and_add.py.  get_job purges, then looks   *)
(* the job up (scan_service.py:128-131).                                   *)
(***************************************************************************)
\* fault: the status read derives the state of the job from its counters
GetStatusDerived(id) ==
    /\ registry' = PurgeExpired(registry, clock)
    /\ resp' = Response("status", id, Lookup(registry', id), {})
    /\ heap' = [r \in JobRefs |->
                  IF r = resp'.found
                  THEN [heap[r] EXCEPT !.state =
                          IF heap[r].scanned >= heap[r].total_targets
                          THEN "finished" ELSE "running"]
                  ELSE heap[r]]
    /\ UNCHANGED << clock, sup, worker, sem, net, deleted, others >>

\* GET /api/scan/{job_id}/status (lines 155-188)
GetStatus(id) ==
    /\ registry' = PurgeExpired(registry, clock)
    /\ resp' = Response("status", id, Lookup(registry', id), {})
    /\ UNCHANGED << clock, heap, sup, worker, sem, net, deleted, others >>

\* DELETE /api/scan/{job_id} (lines 529-543)
DeleteJob(id) ==
    /\ LET purged == PurgeExpired(registry, clock)
           ref    == Lookup(purged, id)
       IN  /\ registry' = [j \in DOMAIN purged \ {id} |-> purged[j]]
           /\ deleted' = IF ref = NoJob THEN deleted ELSE deleted \cup {ref}
           /\ resp' = Response("delete", id, ref, {})
    /\ UNCHANGED << clock, heap, sup, worker, sem, net, others >>

\* GET /api/scan/jobs (lines 546-561)
ListJobs ==
    /\ registry' = PurgeExpired(registry, clock)
    /\ resp' = Response("jobs", << >>, NoJob,
                        {registry'[id] : id \in DOMAIN registry'})
    /\ UNCHANGED << clock, heap, sup, worker, sem, net, deleted, others >>

\* time passes: by a millisecond, or by the TTL of a job
Tick(d) ==
    /\ IF d = 1 THEN clock % JobTtl < MaxSmallTicks
                ELSE clock \div JobTtl < MaxTtlTicks
    /\ clock' = clock + d
    /\ Background
    /\ UNCHANGED << registry, heap, sup, worker, sem, net, deleted, others >>

(***************************************************************************)
(* The inventory service holds no state between requests; the model keeps  *)
(* the request in hand and its response.                                   *)
(***************************************************************************)
\* no response yet
NoPreview == [devices |-> {}, total_count |-> 0 - 1, operations_executed |-> 0]

NoOnboardResponse == [status |-> 0, rid |-> 0]

NoVaultResponse == [op |-> "none", status |-> 0]

InitVault ==
    /\ credentialRows = << >>
    /\ credentialSeq = 0
    /\ supplied = << >>
    /\ vaultResp = NoVaultResponse

InitOnboard ==
    /\ sms = << >>
    /\ files = << >>
    /\ index = << >>
    /\ commits = << >>
    /\ onboards = 0
    /\ served = [op |-> "none", pc |-> "none"]
    /\ onbResp = NoOnboardResponse

InitInventory ==
    /\ operations = << >>
    /\ preview = NoPreview

(***************************************************************************)
(* Git helpers (git_utils.py).  A URL is a record of the parts urlparse    *)
(* yields; userinfo is << >> or << user, password >>.  The directory of a  *)
(* repository is missing, empty, holds files that are no Git repository,   *)
(* or is a working tree with named remotes.                                *)
(***************************************************************************)
Url(scheme, userinfo, host, path, query) ==
    [scheme |-> scheme, userinfo |-> userinfo, host |-> host, path |-> path,
     query |-> query]

\* repository.get("url") is missing or empty; a remote that does not exist
NoUrl == Url("", << >>, "", "", "")

NoUserinfo == << >>

\* urllib.parse.quote(s, safe="") on the names and tokens in use
UrlQuote(s) ==
    CASE s = "p@ss" -> "p%40ss"
      [] OTHER      -> s

\* normalize_git_url (lines 71-80): userinfo, params, query and fragment go
NormalizeGitUrl(url) ==
    [url EXCEPT !.userinfo = NoUserinfo, !.query = ""]

\* Python's None where a string is expected
None == "None"

\* bool(s) of an optional string
Truthy(s) == s # None /\ s # ""

\* add_auth_to_url (lines 45-68)
AddAuthToUrl(url, username, token) ==
    IF url.scheme \notin {"http", "https"} THEN url
    ELSE IF ~ Truthy(token) THEN url
    ELSE [url EXCEPT !.userinfo =
            << UrlQuote(IF Truthy(username) THEN username ELSE "git"),
               UrlQuote(token) >>]

Repository(url, username, token) ==
    [url |-> url, username |-> username, token |-> token]

Missing == [kind |-> "missing", remotes |-> << >>]

EmptyDir == [kind |-> "empty", remotes |-> << >>]

PlainFiles == [kind |-> "files", remotes |-> << >>]

WorkingTree(remotes) == [kind |-> "repo", remotes |-> remotes]

NoGitResult == [outcome |-> "none", cloned |-> FALSE]

GitResult(outcome, cloned) == [outcome |-> outcome, cloned |-> cloned]

InitGit ==
    /\ repository = Repository(NoUrl, "", "")
    /\ disk = Missing
    /\ gitResult = NoGitResult

\* repo.remotes.origin.url, or None when there is no such remote (134-137)
CurrentRemote(dir) ==
    IF "origin" \in DOMAIN dir.remotes THEN dir.remotes["origin"] ELSE NoUrl

\* lines 131-149: the directory opens as a repository and passes the check
OpensAsExpected(dir, repo) ==
    /\ dir.kind = "repo"
    /\ ~ /\ repo.url # NoUrl
         /\ CurrentRemote(dir) # NoUrl
         /\ NormalizeGitUrl(CurrentRemote(dir)) # NormalizeGitUrl(repo.url)

\* open_or_clone (lines 112-183); rmtree and the clone may fail
OpenOrClone(rmtree_ok, clone_ok) ==
    LET made == IF disk.kind = "missing" THEN EmptyDir ELSE disk
    IN  IF OpensAsExpected(made, repository)
        THEN /\ disk' = made
             /\ gitResult' = GitResult("returned", FALSE)
             /\ UNCHANGED << repository, nonGit >>
        ELSE LET cleared   == IF rmtree_ok THEN EmptyDir ELSE made
                 clone_url == AddAuthToUrl(repository.url, repository.username,
                                           repository.token)
                 cloned    == /\ clone_ok
                              /\ cleared.kind = "empty"
                              /\ repository.url # NoUrl
             IN  /\ disk' = IF cloned
                            THEN WorkingTree("origin" :> clone_url)
                            ELSE IF cleared.kind = "empty" THEN Missing
                                                           ELSE cleared
                 /\ gitResult' = IF cloned THEN GitResult("returned", TRUE)
                                           ELSE GitResult("raised", FALSE)
                 /\ UNCHANGED << repository, nonGit >>

\* the repository metadata is edited (git_repositories_manager.py,
\* update_repository)
Reconfigure(repo) ==
    /\ repo # repository
    /\ repository' = repo
    /\ gitResult' = NoGitResult
    /\ UNCHANGED << disk, nonGit >>

ExampleHost == "git.example.com"

ConfiguredUrls ==
    { NoUrl,
      Url("https", NoUserinfo, ExampleHost, "/a.git", ""),
      Url("https", << "old", "t0k" >>, ExampleHost, "/a.git", ""),
      Url("https", NoUserinfo, ExampleHost, "/b.git", ""),
      Url("ssh", << "git", "" >>, ExampleHost, "/a.git", "") }

Repositories ==
    {Repository(url, username, token) :
        url \in ConfiguredUrls, username \in {"", "bot"},
        token \in {"", "t0k", "p@ss"}}

RemoteUrls ==
    { Url("https", NoUserinfo, ExampleHost, "/a.git", ""),
      Url("https", << "bot", "t0k" >>, ExampleHost, "/a.git", ""),
      Url("https", NoUserinfo, ExampleHost, "/a.git", "ref=x"),
      Url("https", NoUserinfo, ExampleHost, "/b.git", "") }

DiskStates ==
    { Missing, EmptyDir, PlainFiles, WorkingTree(<< >>) }
    \cup {WorkingTree(name :> url) :
            name \in {"origin", "upstream"}, url \in RemoteUrls}

(***************************************************************************)
(* The repository table (git_repositories_manager.py) and its endpoints    *)
(* (routers/git_repositories.py).  A row is a function of its columns; the *)
(* columns category, description and the timestamps carry no behaviour and *)
(* are left out.  A request body is a function of the fields it carries.   *)
(***************************************************************************)
NoRow == 0

\* the columns update_repository may set (line 145)
UpdatableColumns ==
    {"name", "url", "branch", "username", "token", "path", "verify_ssl",
     "is_active"}

ResponseFields ==
    {"id", "name", "url", "branch", "username", "credential_name", "path",
     "verify_ssl", "is_active", "sync_status"}

GitRepositoryRequest(name, url, username, token, credential_name, verify_ssl) ==
    [name |-> name, url |-> url, branch |-> "main", username |-> username,
     token |-> token, credential_name |-> credential_name, path |-> None,
     verify_ssl |-> verify_ssl, is_active |-> TRUE]

\* pydantic keeps the declared fields; a field the dict lacks is None
GitRepositoryResponse(repo_dict) ==
    [k \in ResponseFields |->
        IF k \in DOMAIN repo_dict THEN repo_dict[k] ELSE None]

\* repo_dict.pop('token', None)
PopToken(repo_dict) == [k \in (DOMAIN repo_dict) \ {"token"} |-> repo_dict[k]]

NoRepoResponse == [op |-> "none", status |-> 0, bodies |-> {}]

RepoResponse(op, status, bodies) ==
    [op |-> op, status |-> status, bodies |-> bodies]

Unset == None

NoGitCommand == [op |-> "none"]

Clients == 1..MaxClients

NoCall == [op |-> "none", pc |-> "none"]

\* the sections of a handler that run a Git command: the call blocks the
\* thread of the event loop, no other coroutine runs until it returns
BlockingSections == {"clone", "pull", "commit", "push"}

\* fault: the Git command is awaited, the loop serves other requests
LoopFreeWhileGitRuns == TRUE

\* no coroutine is inside a blocking call
LoopFree == \A c \in Clients : call[c].pc \notin BlockingSections

GitSslVars == {"GIT_SSL_NO_VERIFY", "GIT_SSL_CA_INFO", "GIT_SSL_CERT"}

InitRepo ==
    /\ table = << >>
    /\ lastrowid = 0
    /\ selected = NoRow
    /\ dirs = << >>
    /\ environ = [k \in GitSslVars |-> Unset]
    /\ credstore = {}
    /\ call = [c \in Clients |-> NoCall]
    /\ gitcmd = NoGitCommand
    /\ named = << >>
    /\ repoResp = NoRepoResponse

NameTaken(name, except) ==
    \E id \in (DOMAIN table) \ {except} : table[id]["name"] = name

\* the row the INSERT of create_repository makes (manager lines 62-93)
InsertedRow(repo_id, repo_data) ==
    [id |-> repo_id, name |-> repo_data.name,
     url |-> repo_data.url, branch |-> repo_data.branch,
     username |-> repo_data.username,
     token |-> repo_data.token, path |-> repo_data.path,
     verify_ssl |-> repo_data.verify_ssl,
     is_active |-> repo_data.is_active, sync_status |-> None]

\* create_repository (router lines 191-219, manager lines 62-93)
CreateRepository(request) ==
    LET repo_data == IF Truthy(request.credential_name)
                     THEN [request EXCEPT !.username = None, !.token = None]
                     ELSE request
        repo_id   == lastrowid + 1
        row       == InsertedRow(repo_id, repo_data)
    IN  /\ LoopFree
        /\ lastrowid < MaxRows
        /\ IF NameTaken(repo_data.name, NoRow)
           THEN /\ repoResp' = RepoResponse("create", 400, {})
                /\ UNCHANGED << table, lastrowid, named >>
           ELSE /\ table' = table @@ (repo_id :> row)
                /\ lastrowid' = repo_id
                /\ named' = named @@ (repo_id :> request.credential_name)
                /\ repoResp' = RepoResponse("create", 200,
                                   {GitRepositoryResponse(PopToken(row))})
        /\ UNCHANGED << selected, dirs, environ, credstore, call, gitcmd, clock,
                        nonRepo >>

\* update_repository (router lines 222-268, manager lines 138-171)
UpdateRepository(repo_id, body) ==
    LET by_name   == /\ "credential_name" \in DOMAIN body
                     /\ Truthy(body["credential_name"])
        repo_data == IF by_name
                     THEN [k \in (DOMAIN body) \cup {"username", "token"} |->
                             IF k \in {"username", "token"} THEN None
                                                            ELSE body[k]]
                     ELSE body
        set       == (DOMAIN repo_data) \cap UpdatableColumns
        status    == IF repo_id \notin DOMAIN table THEN 404
                     ELSE IF DOMAIN repo_data = {} THEN 400
                     ELSE IF set = {} THEN 500
                     ELSE IF /\ "name" \in set
                             /\ NameTaken(repo_data["name"], repo_id) THEN 400
                     ELSE 200
    IN  /\ LoopFree
        /\ IF status = 200
           THEN LET row == [k \in DOMAIN table[repo_id] |->
                              IF k \in set THEN repo_data[k]
                                           ELSE table[repo_id][k]]
                IN  /\ table' = [table EXCEPT ![repo_id] = row]
                    /\ named' = IF "credential_name" \in DOMAIN body
                                THEN [named EXCEPT
                                        ![repo_id] = body["credential_name"]]
                                ELSE named
                    /\ repoResp' = RepoResponse("update", 200,
                                       {GitRepositoryResponse(PopToken(row))})
           ELSE /\ repoResp' = RepoResponse("update", status, {})
                /\ UNCHANGED << table, named >>
        /\ UNCHANGED << lastrowid, selected, dirs, environ, credstore, call,
                        gitcmd, clock, nonRepo >>

\* delete_repository (router lines 269-292, manager lines 173-195)
DeleteRepository(repo_id, hard_delete) ==
    /\ LoopFree
    /\ IF repo_id \notin DOMAIN table
       THEN /\ repoResp' = RepoResponse("delete", 404, {})
            /\ UNCHANGED table
       ELSE /\ table' = IF hard_delete
                        THEN [id \in (DOMAIN table) \ {repo_id} |-> table[id]]
                        ELSE [table EXCEPT ![repo_id]["is_active"] = FALSE]
            /\ repoResp' = RepoResponse("delete", 200, {})
    /\ UNCHANGED << lastrowid, selected, dirs, environ, credstore, call,
                    gitcmd, named, clock, nonRepo >>

\* get_repositories (router lines 34-57)
GetRepositories(active_only) ==
    /\ LoopFree
    /\ repoResp' = RepoResponse("list", 200,
           {GitRepositoryResponse(PopToken(table[id])) :
               id \in {i \in DOMAIN table :
                          active_only => table[i]["is_active"]}})
    /\ UNCHANGED << table, lastrowid, selected, dirs, environ, credstore,
                    call, gitcmd, named, clock, nonRepo >>

\* get_repository (router lines 147-167)
GetRepository(repo_id) ==
    /\ LoopFree
    /\ repoResp' = IF repo_id \notin DOMAIN table
                   THEN RepoResponse("get", 404, {})
                   ELSE RepoResponse("get", 200,
                            {GitRepositoryResponse(PopToken(table[repo_id]))})
    /\ UNCHANGED << table, lastrowid, selected, dirs, environ, credstore,
                    call, gitcmd, named, clock, nonRepo >>

\* fault: the edit form gets the row without its token
GetRepositoryForEditRedacted(repo_id) ==
    /\ LoopFree
    /\ repoResp' = IF repo_id \notin DOMAIN table
                   THEN RepoResponse("edit", 404, {})
                   ELSE RepoResponse("edit", 200, {PopToken(table[repo_id])})
    /\ UNCHANGED << table, lastrowid, selected, dirs, environ, credstore,
                    call, gitcmd, named, clock, nonRepo >>

\* get_repository_for_edit (router lines 170-188): the row as it is stored
GetRepositoryForEdit(repo_id) ==
    /\ LoopFree
    /\ repoResp' = IF repo_id \notin DOMAIN table
                   THEN RepoResponse("edit", 404, {})
                   ELSE RepoResponse("edit", 200, {table[repo_id]})
    /\ UNCHANGED << table, lastrowid, selected, dirs, environ, credstore,
                    call, gitcmd, named, clock, nonRepo >>

\* get_selected_repository (router lines 84-110)
GetSelectedRepository ==
    /\ LoopFree
    /\ IF selected = NoRow
       THEN /\ repoResp' = RepoResponse("selected", 200, {})
            /\ UNCHANGED selected
       ELSE IF selected \notin DOMAIN table
       THEN /\ selected' = NoRow
            /\ repoResp' = RepoResponse("selected", 200, {})
       ELSE /\ repoResp' = RepoResponse("selected", 200,
                              {GitRepositoryResponse(PopToken(table[selected]))})
            /\ UNCHANGED selected
    /\ UNCHANGED << table, lastrowid, dirs, environ, credstore, call, gitcmd,
                    named, clock, nonRepo >>

\* set_selected_repository (router lines 114-144); every row is of the
\* category configs
SetSelectedRepository(repository_id) ==
    /\ LoopFree
    /\ IF repository_id \notin DOMAIN table
       THEN /\ repoResp' = RepoResponse("select", 404, {})
            /\ UNCHANGED selected
       ELSE IF ~ table[repository_id]["is_active"]
       THEN /\ repoResp' = RepoResponse("select", 400, {})
            /\ UNCHANGED selected
       ELSE /\ selected' = repository_id
            /\ repoResp' = RepoResponse("select", 200, {})
    /\ UNCHANGED << table, lastrowid, dirs, environ, credstore, call, gitcmd,
                    named, clock, nonRepo >>

(***************************************************************************)
(* sync_repository (routers/git_repositories.py lines 601-745).  The       *)
(* handler has no await: from its first line to its response it holds the  *)
(* thread of the event loop.  SyncBegin runs it up to the Git command,     *)
(* SyncEnd from the return of that command to the response.                *)
(***************************************************************************)
\* dict.get(k) on a row
RowGet(row, k) == IF k \in DOMAIN row THEN row[k] ELSE None

\* repo_path (git_utils.py lines 30-42); no name in use starts with "/"
SubPath(row) == IF Truthy(row["path"]) THEN row["path"] ELSE row["name"]

DirAt(path) == IF path \in DOMAIN dirs THEN dirs[path] ELSE Missing

Credential(id, name, type, username, password, expired, decrypts) ==
    [id |-> id, name |-> name, type |-> type, username |-> username,
     password |-> password, expired |-> expired, decrypts |-> decrypts]

\* list_credentials(include_expired=False) (credentials_manager.py 131-137)
ListCredentials == {c \in credstore : ~ c.expired}

ResolvedAuth(username, token) == [username |-> username, token |-> token]

\* step 4 (lines 636-655): inline values, replaced by those of the named
\* credential of type token when the row names one and it is found
ResolveCredentials(row) ==
    LET inline  == ResolvedAuth(RowGet(row, "username"), RowGet(row, "token"))
        name    == RowGet(row, "credential_name")
        matches == {c \in ListCredentials :
                       c.name = name /\ c.type = "token"}
    IN  IF ~ Truthy(name) \/ matches = {} THEN inline
        ELSE LET match == CHOOSE c \in matches :
                              \A d \in matches : c.id <= d.id
             IN  ResolvedAuth(match.username,
                          IF match.decrypts THEN match.password
                                            ELSE inline.token)

\* step 5 (lines 657-661)
CloneUrl(row, resolved) ==
    IF /\ row["url"].scheme \in {"http", "https"}
       /\ Truthy(resolved.token)
    THEN AddAuthToUrl(row["url"], resolved.username, resolved.token)
    ELSE row["url"]

\* set_ssl_env, the part before the yield (git_utils.py lines 91-102)
SetSslEnv(row, env) ==
    [k \in GitSslVars |->
        CASE k = "GIT_SSL_NO_VERIFY" ->
                 IF ~ RowGet(row, "verify_ssl") THEN "1" ELSE env[k]
          [] k = "GIT_SSL_CA_INFO" ->
                 IF Truthy(RowGet(row, "ssl_ca_info"))
                 THEN RowGet(row, "ssl_ca_info") ELSE env[k]
          [] OTHER ->
                 IF Truthy(RowGet(row, "ssl_cert"))
                 THEN RowGet(row, "ssl_cert") ELSE env[k]]

\* set_ssl_env, the finally (git_utils.py lines 103-109)
RestoreSslEnv(original) == original

\* what is known of a Git command when it starts: who runs it, where, with
\* which URL and environment (entered: os.environ before the scoped block)
GitCommand(op, by, rid, path, url, branch, entered, env, found, row, credential_name) ==
    [op |-> op, by |-> by, rid |-> rid, path |-> path, url |-> url,
     branch |-> branch, entered |-> entered, env |-> env, found |-> found,
     configured |-> row["url"], repo_id |-> row["id"],
     credential_name |-> credential_name, done |-> FALSE, ok |-> FALSE]

\* update_sync_status (manager lines 197-215)
UpdateSyncStatus(rows, repo_id, status) ==
    IF repo_id \in DOMAIN rows
    THEN [rows EXCEPT ![repo_id]["sync_status"] = status]
    ELSE rows

SyncBegin(c, repo_id) ==
    /\ LoopFree
    /\ call[c] = NoCall
    /\ IF repo_id \notin DOMAIN table
       THEN /\ repoResp' = RepoResponse("sync", 404, {})
            /\ UNCHANGED << table, dirs, environ, call, gitcmd >>
       ELSE
         LET repository_ == table[repo_id]
             repo_path   == SubPath(repository_)
             found       == DirAt(repo_path)
             needs_clone == found.kind # "repo"
             resolved    == ResolveCredentials(repository_)
             clone_url   == CloneUrl(repository_, resolved)
             credname    == named[repo_id]
         IN  IF needs_clone
             THEN \* the directory in the way is moved to a backup
                  /\ table' = UpdateSyncStatus(table, repo_id, "syncing")
                  /\ dirs' = IF found.kind = "missing" THEN dirs
                             ELSE (repo_path :> Missing) @@ dirs
                  /\ environ' = SetSslEnv(repository_, environ)
                  /\ gitcmd' =
                        GitCommand("clone", "sync", 0, repo_path, clone_url,
                                   repository_["branch"], environ, environ',
                                   found, repository_, credname)
                  /\ call' = [call EXCEPT ![c] =
                        [op |-> "sync", pc |-> "clone", repo_id |-> repo_id,
                         path |-> repo_path, url |-> clone_url,
                         original |-> environ]]
                  /\ repoResp' = NoRepoResponse
             ELSE IF "origin" \notin DOMAIN found.remotes
             THEN \* repo.remotes.origin raises: "Pull failed"
                  /\ table' = UpdateSyncStatus(table, repo_id, "error")
                  /\ repoResp' = RepoResponse("sync", 500, {})
                  /\ UNCHANGED << dirs, environ, call, gitcmd >>
             ELSE LET origin_url ==
                          IF clone_url # repository_["url"] THEN clone_url
                          ELSE found.remotes["origin"]
                  IN  /\ table' = UpdateSyncStatus(table, repo_id, "syncing")
                      /\ dirs' = (repo_path :>
                                    WorkingTree("origin" :> origin_url)) @@ dirs
                      /\ environ' = SetSslEnv(repository_, environ)
                      /\ gitcmd' =
                            GitCommand("pull", "sync", 0, repo_path, origin_url,
                                       repository_["branch"], environ,
                                       environ', found, repository_,
                                       credname)
                      /\ call' = [call EXCEPT ![c] =
                            [op |-> "sync", pc |-> "pull", repo_id |-> repo_id,
                             path |-> repo_path, url |-> origin_url,
                             original |-> environ]]
                      /\ repoResp' = NoRepoResponse
    /\ UNCHANGED << lastrowid, selected, credstore, named, clock, nonRepo >>

\* the Git command returns (ok) or raises; set_ssl_env restores; the empty
\* directory of a failed clone is removed; step 6 writes the final status
SyncEnd(c, ok) ==
    /\ call[c].op = "sync"
    /\ environ' = RestoreSslEnv(call[c].original)
    /\ dirs' = IF call[c].pc = "clone"
               THEN IF ok
                    THEN (call[c].path :>
                            WorkingTree("origin" :> call[c].url)) @@ dirs
                    ELSE IF DirAt(call[c].path).kind = "empty"
                    THEN (call[c].path :> Missing) @@ dirs
                    ELSE dirs
               ELSE dirs
    /\ table' = UpdateSyncStatus(table, call[c].repo_id,
                                 IF ok THEN "synced" ELSE "error")
    /\ repoResp' = RepoResponse("sync", IF ok THEN 200 ELSE 500, {})
    /\ call' = [call EXCEPT ![c] = NoCall]
    /\ gitcmd' = [gitcmd EXCEPT !.done = TRUE, !.ok = ok]
    /\ UNCHANGED << lastrowid, selected, credstore, named, clock, nonRepo >>

(***************************************************************************)
(* Onboarding (routers/scan_and_add.py lines 191-526, routers/nautobot.py  *)
(* lines 530-600).  onboard_devices is a coroutine: it gives up the event  *)
(* loop while it awaits the answer of the SMS to a submission, and holds it *)
(* from there on through _create_linux_inventory, which has no await.      *)
(***************************************************************************)
OnboardDevice(ip, device_type, hostname, platform) ==
    [ip |-> ip, credential_id |-> 9, device_type |-> device_type,
     hostname |-> hostname, platform |-> platform]

OnboardRequest(devices, git_repository_id, git_repository_name, inventory_template_id, filename, auto_commit, auto_push, commit_message) ==
    [devices |-> devices, git_repository_id |-> git_repository_id,
     git_repository_name |-> git_repository_name,
     inventory_template_id |-> inventory_template_id, filename |-> filename,
     auto_commit |-> auto_commit, auto_push |-> auto_push,
     commit_message |-> commit_message]

\* inventory_path = None
NoPath == [dir |-> None, name |-> << >>]

OnboardResponse(rid, accepted, cisco_queued, linux_added, inventory_path, job_ids) ==
    [status |-> 200, rid |-> rid, accepted |-> accepted,
     cisco_queued |-> cisco_queued, linux_added |-> linux_added,
     inventory_path |-> inventory_path, job_ids |-> job_ids]

\* an HTTPException
OnboardError(rid, status) == [status |-> status, rid |-> rid]

\* Python's (s or default) on optional strings
Or(s, default) == IF Truthy(s) THEN s ELSE default

\* str.lower() on the platform names in use
Lower(s) ==
    CASE s = "AUTO"   -> "auto"
      [] s = "R1"     -> "r1"
      [] s = "Detect" -> "detect"
      [] OTHER        -> s

\* device_data of _onboard_cisco_devices (lines 268-278); the SMS fields
\* location, namespace, role and the statuses are handed on as they come
DeviceData(device) ==
    [ip_address |-> device.ip,
     hostname |-> Or(device.hostname, ToString(device.ip)),
     platform |-> Or(device.platform, "cisco_ios")]

\* nautobot_service.onboard_device: what it transmits for device_data
ServiceJobData(device_data) ==
    [ip_addresses |-> device_data.ip_address,
     platform |-> IF device_data.platform = "detect" THEN None
                  ELSE device_data.platform]

DeviceOnboardRequest(ip_address, platform_id) ==
    [ip_address |-> ip_address, platform_id |-> platform_id]

\* fault: the platform is handed on as it came
JobDataKeepsDetect(request) ==
    [ip_addresses |-> request.ip_address, platform |-> request.platform_id]

\* job_data of onboard_device (routers/nautobot.py lines 549-564)
JobData(request) ==
    [ip_addresses |-> request.ip_address,
     platform |-> IF request.platform_id = "detect" THEN None
                  ELSE request.platform_id]

Submission(rid, by, scan, ip, requested, job_data) ==
    [rid |-> rid, by |-> by, scan |-> scan, ip |-> ip,
     requested |-> requested, job_data |-> job_data, outcome |-> "pending", job_id |-> 0]

\* what the SMS may do with a submission: start a job and name it, answer
\* without a job identifier, or fail
SmsOutcomes == {"queued", "no_id", "raised"}

\* POST /api/nautobot/devices/onboard (routers/nautobot.py lines 530-600)
onboard_device(request, outcome) ==
    /\ LoopFree
    /\ Len(SelectSeq(sms, LAMBDA m : m.by = "router")) < MaxSubmissions
    /\ sms' = Append(sms,
          [Submission(0, "router", << >>, request.ip_address, request.platform_id,
                      JobData(request))
              EXCEPT !.outcome = outcome,
                     !.job_id = IF outcome = "queued" THEN Len(sms) + 1
                                                      ELSE 0])
    /\ onbResp' = OnboardError(0, IF outcome = "raised" THEN 500 ELSE 200)
    /\ served' = NoCall
    /\ UNCHANGED << files, index, commits, onboards, registry, dirs, environ,
                    call, gitcmd, nonOnboard >>

\* the locals of onboard_devices and of the helpers it runs
\* fault: every accepted device is submitted to the SMS
CiscoDevicesAll(valid_devices) == valid_devices

\* line 213
CiscoDevices(valid_devices) ==
    SelectSeq(valid_devices, LAMBDA d : d.device_type = "cisco")

\* line 214
LinuxDevices(valid_devices) ==
    SelectSeq(valid_devices, LAMBDA d : d.device_type = "linux")

OnboardCall(rid, job_id, request, valid) ==
    [op |-> "onboard", pc |-> "begin", rid |-> rid, job_id |-> job_id,
     request |-> request, valid |-> valid,
     cisco |-> CiscoDevices(valid),
     linux |-> LinuxDevices(valid),
     k |-> 1, cisco_queued |-> 0, job_ids |-> << >>, linux_added |-> 0,
     inventory_path |-> NoPath, dir |-> None, repo_info |-> << >>,
     found |-> Missing, before |-> 0, devices_list |-> << >>,
     ssl_env_set |-> FALSE]

\* fault: every submitted device is taken for valid
ValidDevicesUnchecked(job, devices) == devices

\* lines 202-204
ValidDevices(job, devices) ==
    LET result_ips == {job.results[i].ip : i \in DOMAIN job.results}
    IN  SelectSeq(devices, LAMBDA device : device.ip \in result_ips)

\* the state a step of the handler works on and leaves behind
World(st) ==
    [st |-> st, sms |-> sms, files |-> files, index |-> index,
     commits |-> commits, dirs |-> dirs, environ |-> environ,
     gitcmd |-> gitcmd, served |-> NoCall, resp |-> NoOnboardResponse]

\* lines 251-257: the handler returns
Respond(w) ==
    [w EXCEPT !.resp = OnboardResponse(w.st.rid, Len(w.st.valid),
                           w.st.cisco_queued, w.st.linux_added,
                           w.st.inventory_path, w.st.job_ids),
              !.served = w.st,
              !.st = NoCall]

\* lines 238-243, and any exception that leaves _create_linux_inventory
Fail(w) ==
    [w EXCEPT !.resp = OnboardError(w.st.rid, 500), !.served = w.st,
              !.st = NoCall]

\* lines 265-281: the submission of the device in turn, up to the await
Submit(w) ==
    LET device == w.st.cisco[w.st.k]
    IN  [w EXCEPT !.sms = Append(@,
                     Submission(w.st.rid, "scan", w.st.job_id, device.ip,
                                   device.platform,
                                ServiceJobData(DeviceData(device)))),
                  !.st.pc = "sms"]

\* lines 313-327: 'detect', 'auto' and 'auto-detect' become 'linux'
InventoryDevice(device) ==
    LET platform_val == Or(device.platform, "linux")
    IN  [primary_ip4 |-> device.ip,
         name |-> Or(device.hostname, ToString(device.ip)),
         credential_id |-> device.credential_id,
         platform |-> IF Lower(platform_val)
                           \in {"detect", "auto", "auto-detect"}
                      THEN "linux" ELSE platform_val]

\* the templates template_manager holds
Templates == {1}

\* lines 340-361: the template if there is one and it renders, JSON if not
Render(inventory_template_id, devices_list) ==
    [as |-> IF inventory_template_id \in Templates THEN "template"
                                                   ELSE "json",
     template |-> IF inventory_template_id \in Templates
                  THEN inventory_template_id ELSE 0,
     devices |-> devices_list]

RECURSIVE LStripSlash(_)
\* lstrip('/') on a path given by its segments
LStripSlash(segments) ==
    IF segments # << >> /\ Head(segments) = ""
    THEN LStripSlash(Tail(segments)) ELSE segments

\* lines 401-404; a filename is the list of its segments, << >> when None
OutName(filename, job_id) ==
    LET name == IF filename = << >>
                THEN << "inventory_" \o ToString(job_id) \o ".yaml" >>
                ELSE filename
    IN  [i \in DOMAIN LStripSlash(name) |->
            IF LStripSlash(name)[i] = ".." THEN "__"
                                           ELSE LStripSlash(name)[i]]

\* os.path.basename
Basename(segments) == segments[Len(segments)]

\* lines 390-392: (path or name) or repo_<id>
InventorySubPath(repo) ==
    Or(Or(repo["path"], repo["name"]), "repo_" \o ToString(repo["id"]))

LegacyDir == "data/inventory"

DirIn(d, path) == IF path \in DOMAIN d THEN d[path] ELSE Missing

TreeIn(i, path) == IF path \in DOMAIN i THEN i[path] ELSE << >>

CommitsIn(h, path) == IF path \in DOMAIN h THEN h[path] ELSE << >>

\* lines 458-474: as in the sync, but a value the credential lacks falls
\* back to the inline one
ResolvePushCredentials(row) ==
    LET inline  == ResolvedAuth(RowGet(row, "username"), RowGet(row, "token"))
        name    == RowGet(row, "credential_name")
        matches == {c \in ListCredentials :
                       c.name = name /\ c.type = "token"}
    IN  IF ~ Truthy(name) \/ matches = {} THEN inline
        ELSE LET match == CHOOSE c \in matches :
                              \A d \in matches : c.id <= d.id
             IN  ResolvedAuth(Or(match.username, inline.username),
                              IF match.decrypts
                              THEN Or(match.password, inline.token)
                              ELSE inline.token)

\* lines 476-482: f"{scheme}://{user}:{token}@{netloc}{path}", where netloc
\* still holds the userinfo the URL came with
PushAuthUrl(row, resolved) ==
    LET remote_url == row["url"]
    IN  IF remote_url.scheme \in {"http", "https"} /\ Truthy(resolved.token)
        THEN [remote_url EXCEPT
                !.userinfo = << UrlQuote(Or(resolved.username, "git")),
                                UrlQuote(resolved.token) >> \o @,
                !.query = ""]
        ELSE remote_url

\* fault: a failed commit or push fails the request
GitStepFailedAborts(w) == Fail(w)

\* lines 506-507, 515-516: the failure is logged, the handler goes on
GitStepFailed(w) == Respond(w)

\* lines 449-503: the push, up to origin.push(branch)
PushPrep(w) ==
    LET st        == w.st
        repo_info == st.repo_info
        tree      == DirIn(w.dirs, st.dir)
        auth_url  == PushAuthUrl(repo_info, ResolvePushCredentials(repo_info))
        origin    == IF auth_url # repo_info["url"] THEN auth_url
                     ELSE tree.remotes["origin"]
        env_set   == ~ RowGet(repo_info, "verify_ssl")
        env       == IF env_set
                     THEN [w.environ EXCEPT !["GIT_SSL_NO_VERIFY"] = "1"]
                     ELSE w.environ
    IN  IF tree.kind # "repo" \/ "origin" \notin DOMAIN tree.remotes
        THEN Respond(w)
        ELSE [w EXCEPT
                !.dirs = (st.dir :> WorkingTree("origin" :> origin)) @@ @,
                !.environ = env,
                !.gitcmd = GitCommand("push", "onboard", st.rid, st.dir,
                               origin, Or(repo_info["branch"], "main"),
                               w.environ, env, tree, repo_info, None),
                !.st.pc = "push",
                !.st.ssl_env_set = env_set]

\* _create_linux_inventory (lines 297-444), up to repo.index.commit(msg)
Inventory(w, write_ok) ==
    LET st           == w.st
        request      == st.request
        devices_list == [i \in DOMAIN st.linux |-> InventoryDevice(st.linux[i])]
        rendered     == Render(request.inventory_template_id, devices_list)
        by_repo      == \/ request.git_repository_id # NoRow
                        \/ Truthy(request.git_repository_name)
        by_name      == {id \in DOMAIN table :
                            Lower(table[id]["name"])
                                = Lower(request.git_repository_name)}
        known        == \/ request.git_repository_id \in DOMAIN table
                        \/ by_name # {}
        repo         == IF request.git_repository_id \in DOMAIN table
                        THEN table[request.git_repository_id]
                        ELSE table[CHOOSE id \in by_name : TRUE]
        base_dir     == IF by_repo THEN InventorySubPath(repo) ELSE LegacyDir
        made         == IF DirIn(w.dirs, base_dir).kind = "missing"
                        THEN (base_dir :> EmptyDir) @@ w.dirs ELSE w.dirs
        tree         == DirIn(made, base_dir)
        out_name     == OutName(request.filename, st.job_id)
        written_path == [dir |-> base_dir, name |-> out_name]
        on_disk      == [w EXCEPT
                           !.dirs = IF tree.kind = "empty"
                                    THEN (base_dir :> PlainFiles) @@ made
                                    ELSE made,
                           !.files = (written_path :> rendered) @@ @,
                           !.st.linux_added = Len(st.linux),
                           !.st.inventory_path = written_path,
                           !.st.devices_list = devices_list,
                           !.st.dir = base_dir,
                           !.st.found = tree,
                           !.st.before = Len(CommitsIn(w.commits, base_dir))]
    IN  IF by_repo /\ ~ known THEN Fail(w)
        ELSE IF ~ write_ok THEN Fail([w EXCEPT !.dirs = made])
        ELSE IF ~ by_repo \/ ~ (request.auto_commit \/ request.auto_push)
        THEN Respond(on_disk)
        ELSE IF tree.kind # "repo" THEN Respond(on_disk)
        ELSE LET staged == [on_disk EXCEPT
                              !.index = (base_dir :>
                                  ((out_name :> rendered)
                                      @@ TreeIn(w.index, base_dir))) @@ @,
                              !.st.repo_info = repo]
             IN  IF request.auto_commit
                 THEN [staged EXCEPT
                         !.st.pc = "commit",
                         !.gitcmd = GitCommand("commit", "onboard", st.rid,
                                        base_dir, repo["url"], repo["branch"],
                                        w.environ, w.environ, tree, repo,
                                        None)]
                 ELSE PushPrep(staged)

\* lines 221-257 from where the handler stands: the next submission, then
\* the inventory, then the response
Proceed(w, write_ok) ==
    IF w.st.k <= Len(w.st.cisco) THEN Submit(w)
    ELSE IF Len(w.st.linux) > 0 THEN Inventory(w, write_ok)
    ELSE Respond(w)

Apply(c, w) ==
    /\ call' = [call EXCEPT ![c] = w.st]
    /\ sms' = w.sms
    /\ files' = w.files
    /\ index' = w.index
    /\ commits' = w.commits
    /\ dirs' = w.dirs
    /\ environ' = w.environ
    /\ gitcmd' = w.gitcmd
    /\ served' = w.served
    /\ onbResp' = w.resp

\* POST /api/scan/{job_id}/onboard (lines 191-257), up to its first await
\* or blocking call
OnboardBegin(c, job_id, request, write_ok) ==
    /\ LoopFree
    /\ call[c] = NoCall
    /\ onboards < MaxOnboards
    /\ onboards' = onboards + 1
    /\ registry' = PurgeExpired(registry, clock)
    /\ LET ref   == Lookup(registry', job_id)
           rid   == onboards + 1
           valid == ValidDevices(heap[ref], request.devices)
       IN  IF ref = NoJob
           THEN Apply(c, [World(NoCall) EXCEPT
                            !.resp = OnboardError(rid, 404),
                            !.served = OnboardCall(rid, job_id, request,
                                                   << >>)])
           ELSE IF valid = << >>
           THEN Apply(c, [World(NoCall) EXCEPT
                            !.resp = OnboardError(rid, 400),
                            !.served = OnboardCall(rid, job_id, request,
                                                   << >>)])
           ELSE Apply(c, Proceed(World(OnboardCall(rid, job_id, request,
                                                   valid)), write_ok))
    /\ UNCHANGED nonOnboard

\* fault: a submission that fails ends the loop over the devices
AfterSubmissionAborts(st, outcome, job_id) ==
    [st EXCEPT !.k = IF outcome = "raised" THEN Len(st.cisco) + 1 ELSE @ + 1,
               !.cisco_queued = IF outcome = "queued" THEN @ + 1 ELSE @,
               !.job_ids = IF outcome = "queued" THEN Append(@, job_id)
                                                 ELSE @]

\* lines 283-292: the answer of the SMS, or the exception, is taken in
AfterSubmission(st, outcome, job_id) ==
    [st EXCEPT !.k = @ + 1,
               !.cisco_queued = IF outcome = "queued" THEN @ + 1 ELSE @,
               !.job_ids = IF outcome = "queued" THEN Append(@, job_id)
                                                 ELSE @]

\* the await of line 281 returns or raises, and the handler runs on
SmsReturn(c, outcome, write_ok) ==
    /\ LoopFree
    /\ call[c].pc = "sms"
    /\ LET i  == CHOOSE j \in DOMAIN sms :
                     sms[j].rid = call[c].rid /\ sms[j].outcome = "pending"
           st == AfterSubmission(call[c], outcome, i)
       IN  Apply(c, Proceed(
               [World(st) EXCEPT
                   !.sms = [sms EXCEPT ![i].outcome = outcome,
                                       ![i].job_id = IF outcome = "queued"
                                                     THEN i ELSE 0]],
               write_ok))
    /\ UNCHANGED << onboards, registry, nonOnboard >>

\* fault: an empty commit_message is used as the message
CommitMessageAsGiven(commit_message, written_path) ==
    IF commit_message = None THEN Basename(written_path.name)
    ELSE commit_message

\* lines 441-443: msg = (commit_message or default_msg)
CommitMessage(commit_message, written_path) ==
    Or(commit_message, Basename(written_path.name))

\* repo.index.commit(msg) returns or raises (lines 444-447), and the
\* handler runs on into the push or to its response
CommitEnd(c, ok) ==
    /\ call[c].pc = "commit"
    /\ LET st   == call[c]
           msg  == CommitMessage(st.request.commit_message,
                                 st.inventory_path)
           w    == [World(st) EXCEPT !.gitcmd.done = TRUE, !.gitcmd.ok = ok]
           done == [w EXCEPT !.commits = (st.dir :>
                        Append(CommitsIn(commits, st.dir),
                               [message |-> msg,
                                tree |-> TreeIn(index, st.dir)])) @@ @]
       IN  IF ~ ok THEN Apply(c, GitStepFailed(w))
           ELSE IF st.request.auto_push THEN Apply(c, PushPrep(done))
           ELSE Apply(c, Respond(done))
    /\ UNCHANGED << onboards, registry, nonOnboard >>

\* origin.push(branch) returns or raises (lines 496-513)
PushEnd(c, ok) ==
    /\ call[c].pc = "push"
    /\ LET st == call[c]
           w  == [World(st) EXCEPT
                    !.gitcmd.done = TRUE, !.gitcmd.ok = ok,
                    !.environ = IF st.ssl_env_set
                                THEN [@ EXCEPT !["GIT_SSL_NO_VERIFY"] = Unset]
                                ELSE @]
       IN  IF ok THEN Apply(c, Respond(w)) ELSE Apply(c, GitStepFailed(w))
    /\ UNCHANGED << onboards, registry, nonOnboard >>

(***************************************************************************)
(* CacheService (cache_service.py).  A key is the list of the parts that   *)
(* _key joins with ":"; every method runs under self._lock.  A thread is   *)
(* idle or inside one method; a method that holds the lock over more than  *)
(* one statement takes two steps.                                          *)
(***************************************************************************)
Threads == 1..MaxThreads

NoThread == 0

\* None: what get returns on a miss, and what the other methods return
Miss == 0

\* _key(namespace, *parts) (lines 20-21)
\* a string is the sequence of its characters
RECURSIVE Join(_)
\* ":".join(parts)
Join(parts) ==
    IF parts = << >> THEN << >>
    ELSE IF Len(parts) = 1 THEN parts[1]
    ELSE parts[1] \o << ":" >> \o Join(Tail(parts))

Key(namespace, parts) == namespace \o << ":" >> \o Join(parts)

\* the keys a:x and a:b:x, the namespaces a and a:b
CacheKeys ==
    { Key(<< "a" >>, << << "x" >> >>), Key(<< "a", ":", "b" >>, << << "x" >> >>) }

Namespaces == { << "a" >>, << "a", ":", "b" >> }

CacheData == 1..MaxData

TtlSeconds == 0..MaxTtl

CacheEntry(data, expires_at) == [data |-> data, expires_at |-> expires_at]

NoEntry == CacheEntry(Miss, 0)

Idle == [pc |-> "idle", op |-> "none", key |-> << >>, ret |-> Miss, keys |-> {}]

Returned(op, key, ret) ==
    [pc |-> "idle", op |-> op, key |-> key, ret |-> ret, keys |-> {}]

\* fault: the prefix is the namespace without the colon
StartsWithBare(key, namespace) ==
    /\ Len(key) >= Len(namespace)
    /\ SubSeq(key, 1, Len(namespace)) = namespace

\* k.startswith(namespace + ":") (line 40)
StartsWith(key, namespace) ==
    LET prefix == namespace \o << ":" >>
    IN  /\ Len(key) >= Len(prefix)
        /\ SubSeq(key, 1, Len(prefix)) = prefix

Without(entries, keys) == [k \in DOMAIN entries \ keys |-> entries[k]]

InitCache ==
    /\ cache = << >>
    /\ lock = NoThread
    /\ thread = [t \in Threads |-> Idle]
    /\ written = << >>

\* fault: the methods do not wait for the lock
LockIgnored(t) == thread[t].pc = "idle"

\* with self._lock: a thread enters a method when no thread holds the lock
LockFree(t) == thread[t].pc = "idle" /\ lock = NoThread

\* get, lines 24-26: take the lock, look the key up, read the time
GetBegin(t, key) ==
    /\ LockFree(t)
    /\ lock' = t
    /\ thread' = [thread EXCEPT ![t] =
           [pc |-> "get", op |-> "get", key |-> key,
            entry |-> IF key \in DOMAIN cache THEN cache[key] ELSE NoEntry,
            now |-> clock]]
    /\ UNCHANGED << clock, cache, written, nonCache >>

\* fault: an expired entry is reported as a miss but left in the cache
GetReturnKeepsExpired(t) ==
    /\ thread[t].pc = "get"
    /\ LET entry == thread[t].entry
           key   == thread[t].key
       IN  IF entry # NoEntry /\ entry.expires_at > thread[t].now
           THEN thread' = [thread EXCEPT ![t] = Returned("get", key, entry.data)]
           ELSE thread' = [thread EXCEPT ![t] = Returned("get", key, Miss)]
    /\ lock' = NoThread
    /\ UNCHANGED << clock, cache, written, nonCache >>

\* get, lines 27-32: a live entry is returned; an expired one is deleted
GetReturn(t) ==
    /\ thread[t].pc = "get"
    /\ LET entry == thread[t].entry
           key   == thread[t].key
       IN  IF entry # NoEntry /\ entry.expires_at > thread[t].now
           THEN /\ thread' = [thread EXCEPT ![t] = Returned("get", key, entry.data)]
                /\ cache' = cache
           ELSE /\ thread' = [thread EXCEPT ![t] = Returned("get", key, Miss)]
                /\ cache' = IF entry # NoEntry THEN Without(cache, {key})
                                               ELSE cache
    /\ lock' = NoThread
    /\ UNCHANGED << clock, written, nonCache >>

\* set, line 35: take the lock
SetBegin(t, key, data, ttl_seconds) ==
    /\ LockFree(t)
    /\ lock' = t
    /\ thread' = [thread EXCEPT ![t] =
           [pc |-> "set", op |-> "set", key |-> key, data |-> data,
            ttl_seconds |-> ttl_seconds]]
    /\ UNCHANGED << clock, cache, written, nonCache >>

\* set, line 36: store the entry, expiring ttl_seconds from now
SetStore(t) ==
    /\ thread[t].pc = "set"
    /\ LET key   == thread[t].key
           entry == CacheEntry(thread[t].data,
                               clock + thread[t].ttl_seconds * MsPerSecond)
       IN  /\ cache' = (key :> entry) @@ cache
           /\ written' = (key :> entry) @@ written
           /\ thread' = [thread EXCEPT ![t] = Returned("set", key, Miss)]
    /\ lock' = NoThread
    /\ UNCHANGED << clock, nonCache >>

\* clear_namespace, lines 39-40: take the lock, list the keys of the namespace
ClearNamespaceBegin(t, namespace) ==
    /\ LockFree(t)
    /\ lock' = t
    /\ thread' = [thread EXCEPT ![t] =
           [pc |-> "clear", op |-> "clear", key |-> namespace,
            keys |-> {k \in DOMAIN cache : StartsWith(k, namespace)}]]
    /\ UNCHANGED << clock, cache, written, nonCache >>

\* clear_namespace, lines 41-42: delete the listed keys
ClearNamespaceDelete(t) ==
    /\ thread[t].pc = "clear"
    /\ cache' = Without(cache, thread[t].keys)
    /\ written' = Without(written, thread[t].keys)
    /\ thread' = [thread EXCEPT ![t] = Returned("clear", thread[t].key, Miss)]
    /\ lock' = NoThread
    /\ UNCHANGED << clock, nonCache >>

\* clear_all (lines 44-47)
ClearAll(t) ==
    /\ LockFree(t)
    /\ cache' = << >>
    /\ written' = << >>
    /\ thread' = [thread EXCEPT ![t] = Returned("clear_all", << >>, Miss)]
    /\ UNCHANGED << clock, lock, nonCache >>

\* POST /api/cache/clear (routers/cache.py lines 27-45): everything when the
\* payload names no namespace or an empty one
ClearCache(t, namespace) ==
    IF namespace = << >> THEN ClearAll(t)
                         ELSE ClearNamespaceBegin(t, namespace)

\* stats (lines 49-54): the keys in the cache
Stats(t) ==
    /\ LockFree(t)
    /\ thread' = [thread EXCEPT ![t] =
           [Returned("stats", << >>, Miss) EXCEPT !.keys = DOMAIN cache]]
    /\ UNCHANGED << clock, lock, cache, written, nonCache >>

\* time passes by half a second
HalfSecond == MsPerSecond \div 2

CacheTick ==
    /\ clock < MaxCacheTicks * HalfSecond
    /\ clock' = clock + HalfSecond
    /\ UNCHANGED << cacheVars, nonCache >>

CacheInit ==
    /\ InitService
    /\ InitCache
    /\ InitInventory
    /\ InitGit
    /\ InitRepo
    /\ InitOnboard
    /\ InitVault
    /\ net = [up |-> {}, answers |-> {}, vault |-> {}]

CacheNext ==
    \/ \E t \in Threads, key \in CacheKeys : GetBegin(t, key)
    \/ \E t \in Threads : GetReturn(t)
    \/ \E t \in Threads, key \in CacheKeys, data \in CacheData,
          ttl_seconds \in TtlSeconds : SetBegin(t, key, data, ttl_seconds)
    \/ \E t \in Threads : SetStore(t)
    \/ \E t \in Threads, namespace \in Namespaces :
          ClearNamespaceBegin(t, namespace)
    \/ \E t \in Threads : ClearNamespaceDelete(t)
    \/ \E t \in Threads : ClearAll(t)
    \/ \E t \in Threads : Stats(t)
    \/ CacheTick

CacheSpec == CacheInit /\ [][CacheNext]_vars

(***************************************************************************)
(* NamespaceSpec: the cache of two repositories whose ids share a prefix,  *)
(* under sets and clear requests.                                          *)
(***************************************************************************)
Repo1 == << "r", "e", "p", "o", ":", "1" >>

Repo10 == << "r", "e", "p", "o", ":", "1", "0" >>

\* repo:1:commits, repo:10:commits and the bare key repo:1
NamespaceKeys ==
    { Key(Repo1, << << "c" >> >>), Key(Repo10, << << "c" >> >>), Repo1 }

\* what a clear request may name: repo:1, repo:10, repo, or nothing
ClearPayloads == { Repo1, Repo10, << "r", "e", "p", "o" >>, << >> }

NamespaceNext ==
    \/ \E t \in Threads, key \in NamespaceKeys, data \in CacheData :
          SetBegin(t, key, data, MaxTtl)
    \/ \E t \in Threads : SetStore(t)
    \/ \E t \in Threads, namespace \in ClearPayloads : ClearCache(t, namespace)
    \/ \E t \in Threads : ClearNamespaceDelete(t)
    \/ \E t \in Threads : Stats(t)

NamespaceSpec == CacheInit /\ [][NamespaceNext]_vars

(***************************************************************************)
(* AnsibleInventoryService (ansible_inventory.py): the device-set query    *)
(* engine.  A leaf condition names a field and carries what the inventory  *)
(* system answers to its query: a set of devices, or an error.  An         *)
(* operation is a record [operation_type, conditions, nested_operations].  *)
(***************************************************************************)
Devices == 1..MaxDevices

\* field_to_query_map (lines 19-27); "colour" is a field it does not hold
QueryFields ==
    {"name", "location", "role", "tag", "device_type", "manufacturer",
     "platform"}

LogicalCondition(field, devices, raises) ==
    [field |-> field, devices |-> devices, raises |-> raises]

LogicalOperation(type, conditions, nested) ==
    [operation_type |-> type, conditions |-> conditions,
     nested_operations |-> nested]

\* str.upper() on the operation types in use
Upper(type) ==
    CASE type = "and" -> "AND"
      [] type = "or"  -> "OR"
      [] type = "not" -> "NOT"
      [] OTHER        -> type

Executed(devices, count, data) ==
    [devices |-> devices, count |-> count, data |-> data]

\* fault: a leaf that no query resolved is counted as well
ExecuteConditionAlwaysCounts(condition) ==
    IF condition.field \notin QueryFields \/ condition.raises
    THEN Executed({}, 1, {})
    ELSE Executed(condition.devices, 1, condition.devices)

\* _execute_condition (lines 150-189)
ExecuteCondition(condition) ==
    IF condition.field \notin QueryFields \/ condition.raises
    THEN Executed({}, 0, {})
    ELSE Executed(condition.devices, 1, condition.devices)

RECURSIVE UnionFrom(_, _)
UnionFrom(result, sets) ==
    IF sets = << >> THEN result
    ELSE UnionFrom(result \cup Head(sets), Tail(sets))

\* _union_sets (lines 200-205)
UnionSets(sets) == UnionFrom({}, sets)

RECURSIVE IntersectFrom(_, _)
IntersectFrom(result, sets) ==
    IF sets = << >> THEN result
    ELSE IntersectFrom(result \cap Head(sets), Tail(sets))

\* fault: the sets are united
IntersectSetsUnites(sets) == UnionFrom({}, sets)

\* _intersect_sets (lines 191-198)
IntersectSets(sets) ==
    IF sets = << >> THEN {} ELSE IntersectFrom(Head(sets), Tail(sets))

RECURSIVE SumCounts(_)
SumCounts(results) ==
    IF results = << >> THEN 0
    ELSE Head(results).count + SumCounts(Tail(results))

\* _execute_operation (lines 92-148)
RECURSIVE ExecuteOperation(_)
ExecuteOperation(operation) ==
    LET results ==
            [i \in 1..Len(operation.conditions) |->
                ExecuteCondition(operation.conditions[i])]
            \o [i \in 1..Len(operation.nested_operations) |->
                  ExecuteOperation(operation.nested_operations[i])]
        condition_results == [i \in DOMAIN results |-> results[i].devices]
        data   == UNION {results[i].data : i \in DOMAIN results}
        type   == Upper(operation.operation_type)
        result == CASE type = "AND" -> IntersectSets(condition_results)
                    [] type = "OR"  -> UnionSets(condition_results)
                    [] type = "NOT" -> IF condition_results # << >>
                                       THEN UnionSets(condition_results)
                                       ELSE {}
                    [] OTHER        -> {}
    IN  Executed(result, SumCounts(results), data)

\* fault: a later NOT intersects like any other operation
CombineNotIntersects(result_devices, operation, operation_result) ==
    IF result_devices = {}
    THEN IF Upper(operation.operation_type) = "NOT" THEN {}
                                                     ELSE operation_result
    ELSE result_devices \cap operation_result

\* fault: an empty accumulated set is combined like a non-empty one
CombineEmptyStaysEmpty(result_devices, operation, operation_result) ==
    IF Upper(operation.operation_type) = "NOT"
    THEN result_devices \ operation_result
    ELSE result_devices \cap operation_result

\* fault: the devices of a leading NOT become the result
CombineLeadingNotKept(result_devices, operation, operation_result) ==
    IF result_devices = {}
    THEN operation_result
    ELSE IF Upper(operation.operation_type) = "NOT"
         THEN result_devices \ operation_result
         ELSE result_devices \cap operation_result

\* preview_inventory, lines 58-79: apply one top-level result
Combine(result_devices, operation, operation_result) ==
    IF result_devices = {}
    THEN IF Upper(operation.operation_type) = "NOT" THEN {}
                                                     ELSE operation_result
    ELSE IF Upper(operation.operation_type) = "NOT"
         THEN result_devices \ operation_result
         ELSE result_devices \cap operation_result

\* preview_inventory, lines 43-79: the loop over the top-level operations
RECURSIVE PreviewFrom(_, _)
PreviewFrom(acc, ops) ==
    IF ops = << >> THEN acc
    ELSE LET executed == ExecuteOperation(Head(ops))
         IN  PreviewFrom(
                 Executed(Combine(acc.devices, Head(ops), executed.devices),
                          acc.count + executed.count,
                          acc.data \cup executed.data),
                 Tail(ops))

InventoryPreviewResponse(devices, operations_executed) ==
    [devices |-> devices, total_count |-> Cardinality(devices),
     operations_executed |-> operations_executed]

\* preview_inventory of the service (lines 29-90)
PreviewInventory(ops) ==
    LET final == PreviewFrom(Executed({}, 0, {}), ops)
    IN  InventoryPreviewResponse(final.devices \cap final.data, final.count)

\* POST /api/ansible-inventory/preview (routers/ansible_inventory.py 25-69)
Preview ==
    /\ preview = NoPreview
    /\ preview' = IF operations = << >>
                  THEN InventoryPreviewResponse({}, 0)
                  ELSE PreviewInventory(operations)
    /\ UNCHANGED << operations, nonInventory >>

\* the answers of the inventory system: any set of devices, or an error;
\* and a condition on a field that has no query
Leaves ==
    {LogicalCondition("role", devices, FALSE) : devices \in SUBSET Devices}
    \cup { LogicalCondition("name", Devices, TRUE),
           LogicalCondition("colour", Devices, FALSE) }

LeafLists(n) == UNION {[1..k -> Leaves] : k \in 0..n}

OperationTypes == {"AND", "OR", "NOT"}

\* operations without nested operations
FlatOperations ==
    {LogicalOperation(type, conditions, << >>) :
        type \in OperationTypes, conditions \in LeafLists(MaxConditions)}

ShortOperations ==
    {LogicalOperation(type, conditions, << >>) :
        type \in OperationTypes \cup {"not", "XOR"},
        conditions \in LeafLists(1)}

\* operations with one nested operation, and with one nested in a nested
NestedOperations ==
    {LogicalOperation(type, conditions, << nested >>) :
        type \in OperationTypes, conditions \in LeafLists(1),
        nested \in ShortOperations}

DeepOperations ==
    {LogicalOperation(type, << >>, << nested, other >>) :
        type \in OperationTypes,
        nested \in {o \in NestedOperations :
                       /\ o.operation_type = "AND"
                       /\ o.nested_operations[1].operation_type = "OR"},
        other \in {o \in ShortOperations : o.conditions # << >>
                                            /\ o.operation_type = "OR"}}

InventoryRequests ==
    {<< >>}
    \cup {<< q >> : q \in FlatOperations \cup NestedOperations
                                         \cup DeepOperations}
    \cup {<< q, r >> : q \in FlatOperations, r \in ShortOperations}
    \cup {<< q, r >> : q \in ShortOperations,
                       r \in {o \in NestedOperations : o.conditions = << >>}}

InventoryInit ==
    /\ InitService
    /\ InitCache
    /\ InitGit
    /\ InitRepo
    /\ InitOnboard
    /\ InitVault
    /\ net = [up |-> {}, answers |-> {}, vault |-> {}]
    /\ operations \in InventoryRequests
    /\ preview = NoPreview

InventoryNext == Preview

InventorySpec == InventoryInit /\ [][InventoryNext]_vars

(***************************************************************************)
(* ScanSpec: the life of scan jobs on a network where every host may       *)
(* answer, with status reads and deletions at any moment.                  *)
(***************************************************************************)
ScanInit ==
    /\ InitService
    /\ InitCache
    /\ InitInventory
    /\ InitGit
    /\ InitRepo
    /\ InitOnboard
    /\ InitVault
    /\ net = [up |-> AllHosts, answers |-> Answers, vault |-> {{7, 9}, {9}}]

JobStep ==
    \E r \in JobRefs :
        \/ RunScan(r)
        \/ Acquire(r)
        \/ \E i \in DOMAIN worker[r] : PingLoop(r, i)
        \/ \E i \in DOMAIN worker[r] : TryCredential(r, i)
        \/ GatherDone(r)

ScanNext ==
    \/ \E request \in ScanRequests : StartScan(request, MaxScanJobs)
    \/ \E r \in JobRefs : RunScan(r)
    \/ \E r \in JobRefs : Acquire(r)
    \/ \E r \in JobRefs : \E i \in DOMAIN worker[r] : PingLoop(r, i)
    \/ \E r \in JobRefs : \E i \in DOMAIN worker[r] : TryCredential(r, i)
    \/ \E r \in JobRefs : GatherDone(r)
    \/ \E id \in KnownIds : GetStatus(id)
    \/ \E id \in KnownIds : DeleteJob(id)

ScanSpec == ScanInit /\ [][ScanNext]_vars

(***************************************************************************)
(* LiveSpec: ScanSpec with the scheduling the event loop gives: a task     *)
(* that can run is run, and every ping and login returns.                  *)
(***************************************************************************)
LiveSpec == ScanSpec /\ WF_vars(JobStep)

(***************************************************************************)
(* RegistrySpec: several jobs in the registry while time passes.  The one  *)
(* target of a job does not answer; a scan is started when the scans       *)
(* before it have ended.                                                   *)
(***************************************************************************)
Ended(r) == sup[r].pc \in {"done", "aborted"}

AllEnded == \A r \in JobRefs : Ended(r)

RegistryInit ==
    /\ InitService
    /\ InitCache
    /\ InitInventory
    /\ InitGit
    /\ InitRepo
    /\ InitOnboard
    /\ InitVault
    /\ net = [up |-> {}, answers |-> Answers, vault |-> {{9}}]

RegistryNext ==
    \/ \E request \in RegistryRequests : AllEnded /\ StartScan(request, MaxJobs)
    \/ \E r \in JobRefs : RunScan(r)
    \/ \E r \in JobRefs : Acquire(r)
    \/ \E r \in JobRefs : \E i \in DOMAIN worker[r] : PingLoop(r, i)
    \/ \E r \in JobRefs : GatherDone(r)
    \/ \E id \in KnownIds : GetStatus(id)
    \/ \E id \in KnownIds : DeleteJob(id)
    \/ ListJobs
    \/ \E d \in {1, JobTtl} : Tick(d)

RegistrySpec == RegistryInit /\ [][RegistryNext]_vars

(***************************************************************************)
(* IdSpec: the registry under starts and deletes that fall into the same   *)
(* millisecond.                                                            *)
(***************************************************************************)
IdNext ==
    \/ \E request \in RegistryRequests : AllEnded /\ StartScan(request, MaxIdJobs)
    \/ \E r \in JobRefs : RunScan(r)
    \/ \E r \in JobRefs : Acquire(r)
    \/ \E r \in JobRefs : \E i \in DOMAIN worker[r] : PingLoop(r, i)
    \/ \E r \in JobRefs : GatherDone(r)
    \/ \E id \in KnownIds : GetStatus(id)
    \/ \E id \in KnownIds : DeleteJob(id)
    \/ ListJobs
    \/ \E d \in {1, JobTtl} : Tick(d)

IdSpec == RegistryInit /\ [][IdNext]_vars

(***************************************************************************)
(* PoolSpec: jobs with more targets than permits, one after the other, on  *)
(* a network where two hosts are up.                                       *)
(***************************************************************************)
PoolInit ==
    /\ InitService
    /\ InitCache
    /\ InitInventory
    /\ InitGit
    /\ InitRepo
    /\ InitOnboard
    /\ InitVault
    /\ net = [up |-> {Ip(10, 0, 0, 2), Ip(10, 0, 0, 13)},
              answers |-> {Answer({}, FALSE, FALSE, FALSE, FALSE),
                           Answer({"ios"}, TRUE, TRUE, TRUE, FALSE)},
              vault |-> {{9}}]

PoolNext ==
    \/ \E request \in PoolRequests : AllEnded /\ StartScan(request, MaxPoolJobs)
    \/ \E r \in JobRefs : RunScan(r)
    \/ \E r \in JobRefs : Acquire(r)
    \/ \E r \in JobRefs : \E i \in DOMAIN worker[r] : PingLoop(r, i)
    \/ \E r \in JobRefs : \E i \in DOMAIN worker[r] : TryCredential(r, i)
    \/ \E r \in JobRefs : GatherDone(r)

PoolSpec == PoolInit /\ [][PoolNext]_vars


(***************************************************************************)
(* open_or_clone called on every directory state under every repository    *)
(* configuration, with edits of the configuration in between.              *)
(***************************************************************************)
GitInit ==
    /\ InitService
    /\ InitCache
    /\ InitInventory
    /\ InitRepo
    /\ InitOnboard
    /\ InitVault
    /\ net = [up |-> {}, answers |-> {}, vault |-> {}]
    /\ repository \in Repositories
    /\ disk \in DiskStates
    /\ gitResult = NoGitResult

GitNext ==
    \/ \E rmtree_ok, clone_ok \in BOOLEAN : OpenOrClone(rmtree_ok, clone_ok)
    \/ \E repo \in Repositories : Reconfigure(repo)

GitSpec == GitInit /\ [][GitNext]_vars

(***************************************************************************)
(* The repository endpoints: rows are created, edited, read, deleted and   *)
(* synced, by two clients, over a credential store that holds a usable     *)
(* token credential, an expired one and a password credential.             *)
(***************************************************************************)
UrlA == Url("https", NoUserinfo, ExampleHost, "/a.git", "")

UrlB == Url("https", NoUserinfo, ExampleHost, "/b.git", "")

UrlSsh == Url("ssh", << "git", "" >>, ExampleHost, "/a.git", "")

CreateRequests ==
    { GitRepositoryRequest("r1", UrlA, "bot", "t0k", None, TRUE),
      GitRepositoryRequest("r1", UrlA, "bot", "t0k", "gh", FALSE),
      GitRepositoryRequest("r2", UrlSsh, None, None, None, TRUE) }

UpdateBodies ==
    { "url" :> UrlB,
      "credential_name" :> "gh",
      "token" :> "t1k",
      "credential_name" :> "",
      << >> }

StoredCredentials ==
    { Credential(1, "gh", "token", "vault-user", "v4ult", FALSE, TRUE),
      Credential(2, "old", "token", "vault-user", "0ld", TRUE, TRUE),
      Credential(3, "login", "ssh", "admin", "pw", FALSE, TRUE) }

Environments ==
    { [k \in GitSslVars |-> Unset],
      [k \in GitSslVars |-> IF k = "GIT_SSL_NO_VERIFY" THEN "1" ELSE Unset] }

RepoInit ==
    /\ InitService
    /\ InitCache
    /\ InitInventory
    /\ InitGit
    /\ InitOnboard
    /\ InitVault
    /\ net = [up |-> {}, answers |-> {}, vault |-> {}]
    /\ table = << >>
    /\ lastrowid = 0
    /\ selected = NoRow
    /\ dirs = << >>
    /\ environ = [k \in GitSslVars |-> Unset]
    /\ credstore = StoredCredentials
    /\ call = [c \in Clients |-> NoCall]
    /\ gitcmd = NoGitCommand
    /\ named = << >>
    /\ repoResp = NoRepoResponse

RepoNext ==
    \/ \E request \in CreateRequests : CreateRepository(request)
    \/ \E repo_id \in 1..MaxRows, body \in UpdateBodies :
           UpdateRepository(repo_id, body)
    \/ \E repo_id \in 1..MaxRows, hard_delete \in BOOLEAN :
           DeleteRepository(repo_id, hard_delete)
    \/ \E active_only \in BOOLEAN : GetRepositories(active_only)
    \/ \E repo_id \in 1..MaxRows : GetRepository(repo_id)
    \/ \E repo_id \in 1..MaxRows : GetRepositoryForEdit(repo_id)
    \/ GetSelectedRepository
    \/ \E repo_id \in 1..MaxRows : SetSelectedRepository(repo_id)

RepoSpec == RepoInit /\ [][RepoNext]_vars

(***************************************************************************)
(* Syncs: a row is created, its URL or its credential is edited, and two   *)
(* clients ask for syncs.  The directory may hold files, or the working    *)
(* tree of an earlier clone.                                               *)
(***************************************************************************)
SyncBodies == { "url" :> UrlB, "credential_name" :> "gh" }

SyncInit ==
    /\ InitService
    /\ InitCache
    /\ InitInventory
    /\ InitGit
    /\ InitOnboard
    /\ InitVault
    /\ net = [up |-> {}, answers |-> {}, vault |-> {}]
    /\ table = << >>
    /\ lastrowid = 0
    /\ selected = NoRow
    /\ dirs \in {<< >>, "r1" :> PlainFiles, "r1" :> EmptyDir,
                 "r1" :> WorkingTree(<< >>)}
    /\ environ \in Environments
    /\ credstore = StoredCredentials
    /\ call = [c \in Clients |-> NoCall]
    /\ gitcmd = NoGitCommand
    /\ named = << >>
    /\ repoResp = NoRepoResponse

SyncNext ==
    \/ \E request \in CreateRequests : CreateRepository(request)
    \/ \E repo_id \in 1..MaxRows, body \in SyncBodies :
           UpdateRepository(repo_id, body)
    \/ \E c \in Clients, repo_id \in 1..MaxRows : SyncBegin(c, repo_id)
    \/ \E c \in Clients, ok \in BOOLEAN : SyncEnd(c, ok)

SyncSpec == SyncInit /\ [][SyncNext]_vars

(***************************************************************************)
(* Onboarding: POST /api/scan/{job_id}/onboard for the devices of a        *)
(* finished scan, next to the synchronisation of the repository the        *)
(* inventory goes to and to direct onboarding through the Nautobot router. *)
(***************************************************************************)
ScannedRequest == Request(<< Cidr(Ip(10, 0, 0, 0), 31) >>, << 9 >>, "napalm")

ScannedId == << 0, 1 >>

\* the job of ScannedRequest once _run_scan is through: both hosts answered
\* and took credential 9
ScannedJob ==
    LET found  == TryAuthentication("napalm",
                      Answer({"ios"}, TRUE, TRUE, TRUE, FALSE))
        first  == RecordAuthenticated(
                      RecordAlive(ScanJob(ScannedId, 0, ScannedRequest, 2)),
                      Ip(10, 0, 0, 0), 9, found)
        second == RecordAuthenticated(RecordAlive(first),
                      Ip(10, 0, 0, 1), 9, found)
    IN  [second EXCEPT !.state = "finished"]

OtherRequest == Request(<< Cidr(Ip(10, 0, 0, 9), 32) >>, << 9 >>, "napalm")

OtherId == << 0, 2 >>

\* a second finished scan, which found the host the first did not cover
OtherJob ==
    LET found == TryAuthentication("napalm",
                     Answer({"ios"}, TRUE, TRUE, TRUE, FALSE))
    IN  [RecordAuthenticated(
             RecordAlive(ScanJob(OtherId, 0, OtherRequest, 1)),
             Ip(10, 0, 0, 9), 9, found) EXCEPT !.state = "finished"]

Switch1 == OnboardDevice(Ip(10, 0, 0, 0), "cisco", None, "detect")

Switch2 == OnboardDevice(Ip(10, 0, 0, 1), "cisco", "sw2", None)

Server == OnboardDevice(Ip(10, 0, 0, 1), "linux", "srv", "AUTO")

Stranger == OnboardDevice(Ip(10, 0, 0, 9), "linux", None, "linux")

OnboardRequests ==
    { OnboardRequest(<< Switch1, Stranger, Switch2 >>, NoRow, None, 0, << >>,
                     FALSE, FALSE, None),
      OnboardRequest(<< Switch1, Server >>, 1, None, 1, << "inv.yaml" >>,
                     TRUE, TRUE, None),
      OnboardRequest(<< Server >>, 1, None, 0,
                     << "", "..", "etc", "hosts.yaml" >>,
                     TRUE, FALSE, "add hosts"),
      OnboardRequest(<< Server >>, 1, None, 1, << "inv.yaml" >>,
                     TRUE, FALSE, ""),
      OnboardRequest(<< Server >>, NoRow, "R1", 1, << "inv.yaml" >>,
                     FALSE, TRUE, None),
      OnboardRequest(<< Server, Stranger >>, NoRow, None, 1, << >>,
                     TRUE, TRUE, None),
      OnboardRequest(<< Server >>, 2, None, 1, << "inv.yaml" >>,
                     FALSE, FALSE, None),
      OnboardRequest(<< Stranger >>, 1, None, 1, << "inv.yaml" >>,
                     TRUE, TRUE, None) }

\* the repository the inventory goes to, as POST /api/git-repositories
\* stored it
InventoryRepositories ==
    { GitRepositoryRequest("r1", UrlA, "bot", "t0k", None, FALSE),
      GitRepositoryRequest("r1", UrlA, None, None, "gh", TRUE) }

\* the scan service with both scans finished
InitScanned ==
    /\ registry = (ScannedId :> 1) @@ (OtherId :> 2)
    /\ heap = << ScannedJob, OtherJob >>
    /\ sup = [r \in 1..2 |->
                [pc |-> "done",
                 targets |-> ExpandTargets(<< >>, heap[r].cidrs),
                 credentials |-> {9}]]
    /\ worker = [r \in 1..2 |->
                   [i \in 1..heap[r].total_targets |->
                      [pc |-> "done", tried |-> << "accepted" >>]]]
    /\ sem = << MAX_CONCURRENCY, MAX_CONCURRENCY >>
    /\ deleted = {}
    /\ resp = NoResponse
    /\ net = [up |-> AllHosts, answers |-> Answers, vault |-> {{9}}]

\* finished scans, a stored repository, and what data/git/r1 may hold
OnboardInit ==
    /\ InitCache
    /\ InitInventory
    /\ InitGit
    /\ InitOnboard
    /\ InitVault
    /\ InitScanned
    /\ clock \in {0, JobTtl + 1}
    /\ \E request \in InventoryRepositories :
         /\ table = (1 :> InsertedRow(1,
                [request EXCEPT !.username = IF Truthy(request.credential_name)
                                             THEN None ELSE @,
                                !.token = IF Truthy(request.credential_name)
                                          THEN None ELSE @]))
         /\ named = (1 :> request.credential_name)
    /\ lastrowid = 1
    /\ selected = NoRow
    /\ dirs \in {<< >>, "r1" :> PlainFiles, "r1" :> WorkingTree(<< >>),
                 "r1" :> WorkingTree("origin" :> UrlA)}
    /\ environ \in Environments
    /\ credstore = StoredCredentials
    /\ call = [c \in Clients |-> NoCall]
    /\ gitcmd = NoGitCommand
    /\ repoResp = NoRepoResponse

OnboardNext ==
    \/ \E c \in Clients, job_id \in {ScannedId, OtherId, << 0, 3 >>},
          request \in OnboardRequests, write_ok \in BOOLEAN :
           OnboardBegin(c, job_id, request, write_ok)
    \/ \E c \in Clients, outcome \in SmsOutcomes, write_ok \in BOOLEAN :
           SmsReturn(c, outcome, write_ok)
    \/ \E c \in Clients, ok \in BOOLEAN : CommitEnd(c, ok)
    \/ \E c \in Clients, ok \in BOOLEAN : PushEnd(c, ok)

OnboardSpec == OnboardInit /\ [][OnboardNext]_vars

(***************************************************************************)
(* Synchronisations of the repository next to onboarding requests that     *)
(* commit and push into its working tree.                                  *)
(***************************************************************************)
ExclusionRequests ==
    { OnboardRequest(<< Switch1, Server >>, 1, None, 1, << "inv.yaml" >>,
                     TRUE, TRUE, None),
      OnboardRequest(<< Server >>, NoRow, "R1", 0, << >>,
                     TRUE, FALSE, "add hosts") }

ExclusionInit ==
    /\ OnboardInit
    /\ clock = 0

ExclusionNext ==
    \/ \E c \in Clients : SyncBegin(c, 1)
    \/ \E c \in Clients, ok \in BOOLEAN : SyncEnd(c, ok)
    \/ \E c \in Clients, request \in ExclusionRequests :
           OnboardBegin(c, ScannedId, request, TRUE)
    \/ \E c \in Clients, outcome \in SmsOutcomes :
           SmsReturn(c, outcome, TRUE)
    \/ \E c \in Clients, ok \in BOOLEAN : CommitEnd(c, ok)
    \/ \E c \in Clients, ok \in BOOLEAN : PushEnd(c, ok)

ExclusionSpec == ExclusionInit /\ [][ExclusionNext]_vars

(***************************************************************************)
(* Submissions to the SMS: Cisco devices onboarded from a scan, and        *)
(* devices onboarded directly through POST /api/nautobot/devices/onboard.  *)
(***************************************************************************)
Switch3 == OnboardDevice(Ip(10, 0, 0, 1), "cisco", "sw3", "cisco_nxos")

CiscoRequests ==
    { OnboardRequest(<< Switch1, Stranger, Switch2 >>, NoRow, None, 0, << >>,
                     FALSE, FALSE, None),
      OnboardRequest(<< Switch3, Switch1 >>, NoRow, None, 0, << >>,
                     FALSE, FALSE, None),
      OnboardRequest(<< Switch2 >>, NoRow, None, 0, << >>,
                     FALSE, FALSE, None) }

DirectRequests ==
    { DeviceOnboardRequest(Ip(10, 0, 0, 0), "detect"),
      DeviceOnboardRequest(Ip(10, 0, 0, 0), "cisco_nxos"),
      DeviceOnboardRequest(Ip(10, 0, 0, 1), "") }

SubmitInit ==
    /\ InitCache
    /\ InitInventory
    /\ InitGit
    /\ InitRepo
    /\ InitOnboard
    /\ InitVault
    /\ InitScanned
    /\ clock = 0

SubmitNext ==
    \/ \E request \in DirectRequests, outcome \in SmsOutcomes :
           onboard_device(request, outcome)
    \/ \E c \in Clients, request \in CiscoRequests :
           OnboardBegin(c, ScannedId, request, TRUE)
    \/ \E c \in Clients, outcome \in SmsOutcomes :
           SmsReturn(c, outcome, TRUE)

SubmitSpec == SubmitInit /\ [][SubmitNext]_vars

(***************************************************************************)
(* The credential vault (credentials_manager.py, routers/credentials.py,   *)
(* models/credentials.py).  encryption_service is made once, when the      *)
(* module is loaded, from the secret of the process.                       *)
(***************************************************************************)
\* the Fernet key of encryption_service (lines 85-94, 103)
SecretKey == "sha256(SECRET_KEY)"

\* Fernet.encrypt: the token depends on the key, on a fresh initialisation
\* vector and on the plaintext (lines 95-96)
Encrypt(plaintext, iv) ==
    [key |-> SecretKey, iv |-> iv, plaintext |-> plaintext]

DecryptFailed == "ValueError"

\* Fernet.decrypt: the plaintext of a token made under the same key
\* (lines 97-101)
Decrypt(token) ==
    IF token.key = SecretKey THEN token.plaintext ELSE DecryptFailed

ALLOWED_TYPES == {"ssh", "tacacs", "generic"}

CredentialCreate(name, username, type, password) ==
    [name |-> name, username |-> username, type |-> type,
     password |-> password]

\* the validators of CredentialCreate (models/credentials.py lines 9-20)
CreateRejected(payload) ==
    \/ payload.name = ""
    \/ payload.username = ""
    \/ payload.password = ""
    \/ payload.type \notin ALLOWED_TYPES

\* the validator of CredentialUpdate (lines 22-33)
UpdateRejected(payload) ==
    payload.type # None /\ payload.type \notin ALLOWED_TYPES

VaultResponse(op, status, id, sent, value) ==
    [op |-> op, status |-> status, id |-> id, sent |-> sent, value |-> value]

\* POST /api/credentials (router lines 16-27, manager lines 139-153)
CreateCredential(payload, iv) ==
    /\ credentialSeq < MaxCredentials
    /\ IF CreateRejected(payload)
       THEN /\ vaultResp' = VaultResponse("create", 422, 0, payload.password,
                                          None)
            /\ UNCHANGED << credentialRows, credentialSeq, supplied >>
       ELSE LET new_id == credentialSeq + 1
            IN  /\ credentialRows' = (new_id :>
                      [id |-> new_id, name |-> payload.name,
                       username |-> payload.username, type |-> payload.type,
                       password_encrypted |-> Encrypt(payload.password, iv)])
                      @@ credentialRows
                /\ credentialSeq' = new_id
                /\ supplied' = (new_id :> payload.password) @@ supplied
                /\ vaultResp' = VaultResponse("create", 200, new_id,
                                              payload.password, None)
    /\ UNCHANGED nonVault

\* fault: a password that is absent is encrypted as well
ReencryptsAlways(password) == TRUE

\* if password: (line 165)
Reencrypts(password) == Truthy(password)

\* PUT /api/credentials/{cred_id} (router lines 29-43, manager lines 155-176)
UpdateCredential(cred_id, payload, iv) ==
    /\ IF UpdateRejected(payload)
       THEN /\ vaultResp' = VaultResponse("update", 422, cred_id,
                                          payload.password, None)
            /\ UNCHANGED << credentialRows, supplied >>
       ELSE IF cred_id \notin DOMAIN credentialRows
       THEN /\ vaultResp' = VaultResponse("update", 404, cred_id,
                                          payload.password, None)
            /\ UNCHANGED << credentialRows, supplied >>
       ELSE LET row == credentialRows[cred_id]
                pick(new, old) == IF new # None THEN new ELSE old
            IN  /\ credentialRows' = [credentialRows EXCEPT ![cred_id] =
                      [id |-> cred_id,
                       name |-> pick(payload.name, row.name),
                       username |-> pick(payload.username, row.username),
                       type |-> pick(payload.type, row.type),
                       password_encrypted |->
                           IF Reencrypts(payload.password)
                           THEN Encrypt(payload.password, iv)
                           ELSE row.password_encrypted]]
                /\ supplied' = IF payload.password \notin {None, ""}
                               THEN [supplied EXCEPT ![cred_id] =
                                        payload.password]
                               ELSE supplied
                /\ vaultResp' = VaultResponse("update", 200, cred_id,
                                              payload.password, None)
    /\ UNCHANGED << credentialSeq, nonVault >>

\* DELETE /api/credentials/{cred_id} (router lines 45-51, manager 178-181)
DeleteCredential(cred_id) ==
    /\ credentialRows' = [id \in DOMAIN credentialRows \ {cred_id} |->
                             credentialRows[id]]
    /\ supplied' = [id \in DOMAIN supplied \ {cred_id} |-> supplied[id]]
    /\ vaultResp' = VaultResponse("delete", 200, cred_id, None, None)
    /\ UNCHANGED << credentialSeq, nonVault >>

\* get_decrypted_password (manager lines 183-188)
GetDecryptedPassword(cred_id) ==
    /\ vaultResp' =
          IF cred_id \notin DOMAIN credentialRows
          THEN VaultResponse("decrypt", 404, cred_id, None, None)
          ELSE VaultResponse("decrypt", 200, cred_id, None,
                   Decrypt(credentialRows[cred_id].password_encrypted))
    /\ UNCHANGED << credentialRows, credentialSeq, supplied, nonVault >>

CredentialCreates ==
    { CredentialCreate("lab", "admin", "ssh", "pw1"),
      CredentialCreate("lab", "admin", "generic", "pw2"),
      CredentialCreate("gh", "bot", "token", "pw1"),
      CredentialCreate("lab", "admin", "ssh", "") }

CredentialUpdates ==
    { CredentialCreate(None, None, None, "pw2"),
      CredentialCreate(None, None, None, "pw1"),
      CredentialCreate("core", None, "tacacs", None),
      CredentialCreate(None, "root", None, ""),
      CredentialCreate(None, None, "token", "pw2") }

Nonces == 1..MaxNonces

VaultInit ==
    /\ InitService
    /\ InitCache
    /\ InitInventory
    /\ InitGit
    /\ InitRepo
    /\ InitOnboard
    /\ InitVault
    /\ net = [up |-> {}, answers |-> {}, vault |-> {}]

VaultNext ==
    \/ \E payload \in CredentialCreates, iv \in Nonces :
           CreateCredential(payload, iv)
    \/ \E cred_id \in 1..MaxCredentials, payload \in CredentialUpdates,
          iv \in Nonces : UpdateCredential(cred_id, payload, iv)
    \/ \E cred_id \in 1..MaxCredentials : DeleteCredential(cred_id)
    \/ \E cred_id \in 1..MaxCredentials : GetDecryptedPassword(cred_id)

VaultSpec == VaultInit /\ [][VaultNext]_vars

(***************************************************************************)
(* Start requests: POST /api/scan/start with valid and invalid bodies,     *)
(* and the reads of the registry; the background tasks have not run yet.   *)
(***************************************************************************)
StartInit ==
    /\ InitService
    /\ InitCache
    /\ InitInventory
    /\ InitGit
    /\ InitRepo
    /\ InitOnboard
    /\ InitVault
    /\ net = [up |-> {}, answers |-> Answers, vault |-> {{9}}]

StartNext ==
    \/ \E request \in StartRequests : StartScan(request, MaxStartJobs)
    \/ \E id \in KnownIds : GetStatus(id)
    \/ ListJobs

StartSpec == StartInit /\ [][StartNext]_vars

(***************************************************************************)
(*                              Properties                                 *)
(***************************************************************************)
Job(r) == heap[r]

Buckets(job) ==
    job.authenticated + job.unreachable + job.auth_failed
        + job.driver_not_supported

\* the worker task of job r that processes address ip
WorkerOf(r, ip) == CHOOSE i \in DOMAIN worker[r] : sup[r].targets[i] = ip

Age(r) == clock - heap[r].created

(* C1: in every state in which a job is finished, scanned equals           *)
(* authenticated + unreachable + auth_failed + driver_not_supported.       *)
C1_FinishedCountersBalance ==
    \A r \in JobRefs :
        Job(r).state = "finished" => Job(r).scanned = Buckets(Job(r))

\* a finished job with an unreachable host and an authenticated host
C1_Witness ==
    \E r \in JobRefs :
        /\ Job(r).state = "finished"
        /\ Job(r).unreachable >= 1
        /\ Job(r).authenticated >= 1
        /\ Job(r).scanned = 2

(* C2: results[] of a job never holds two ScanResults with the same ip,    *)
(* also when the supplied CIDRs overlap.                                   *)
C2_OneResultPerIp ==
    \A r \in JobRefs :
        \A m, n \in 1..Len(Job(r).results) :
            Job(r).results[m].ip = Job(r).results[n].ip => m = n

\* both hosts of the overlapping CIDRs 10.0.0.0/31, 10.0.0.1/32 have a result
C2_Witness ==
    \E r \in JobRefs :
        /\ Len(Job(r).cidrs) = 2
        /\ Len(Job(r).results) = 2

(* C3 as stated: when a ScanResult for X records the k-th supplied         *)
(* credential, the worker for X attempted every earlier credential and     *)
(* each of those attempts failed.                                          *)
C3_EarlierCredentialsAttempted ==
    \A r \in JobRefs :
        \A n \in 1..Len(Job(r).results) :
            LET res   == Job(r).results[n]
                tried == worker[r][WorkerOf(r, res.ip)].tried
                k     == Len(tried)
            IN  /\ k >= 1
                /\ tried[k] = "accepted"
                /\ Job(r).credential_ids[k] = res.credential_id
                /\ \A j \in 1..(k - 1) : tried[j] = "rejected"

(* C3 amended: when a ScanResult for X records the k-th supplied           *)
(* credential, then for every earlier credential the worker for X either   *)
(* made an attempt that failed, or passed it over without an attempt       *)
(* because it was not in the credential list loaded when the scan started  *)
(* or its password could not be decrypted.                                 *)
C3_EarlierCredentialsFailedOrSkipped ==
    \A r \in JobRefs :
        \A n \in 1..Len(Job(r).results) :
            LET res   == Job(r).results[n]
                tried == worker[r][WorkerOf(r, res.ip)].tried
                k     == Len(tried)
            IN  /\ k >= 1
                /\ tried[k] = "accepted"
                /\ Job(r).credential_ids[k] = res.credential_id
                /\ \A j \in 1..(k - 1) :
                     \/ tried[j] = "rejected"
                     \/ /\ tried[j] = "absent"
                        /\ Job(r).credential_ids[j] \notin sup[r].credentials
                     \/ /\ tried[j] = "decrypt_error"
                        /\ Job(r).credential_ids[j] \in sup[r].credentials

\* a result that records the second credential
C3_Witness ==
    \E r \in JobRefs :
        \E n \in 1..Len(Job(r).results) :
            /\ Len(Job(r).credential_ids) = 2
            /\ Job(r).results[n].credential_id = Job(r).credential_ids[2]

(* C4: at most MAX_CONCURRENCY workers of a job are inside per-host        *)
(* processing; a permit is held by exactly the workers inside, so every    *)
(* exit path has given its permit back.                                    *)
C4_AtMostTenInside ==
    \A r \in JobRefs :
        /\ Cardinality(Inside(r)) <= MAX_CONCURRENCY
        /\ sem[r] = MAX_CONCURRENCY - Cardinality(Inside(r))

\* the eleventh worker had to wait: it is inside with nine others after an
\* earlier worker left and gave its permit back
C4_Witness ==
    \E r \in JobRefs :
        /\ Cardinality(Inside(r)) = MAX_CONCURRENCY
        /\ (MAX_CONCURRENCY + 1) \in Inside(r)
        /\ \E i \in DOMAIN worker[r] : worker[r][i].pc = "done"

(* C5: the state of a job is running or finished, and a finished job       *)
(* never becomes running again.                                            *)
C5_FinishedIsTerminal ==
    [][\A r \in JobRefs :
         /\ Job(r).state \in {"running", "finished"}
         /\ Job(r).state = "finished" => heap'[r].state = "finished"]_vars

\* a status read of a finished job
C5_Witness ==
    /\ resp.op = "status"
    /\ resp.found # NoJob
    /\ Job(resp.found).state = "finished"

(* C6: no counter of a job ever decreases, scanned <= total_targets, and   *)
(* authenticated + unreachable + auth_failed + driver_not_supported        *)
(* <= scanned, in every state (a status read returns the state it runs in).*)
CountersBounded ==
    \A r \in JobRefs :
        /\ Job(r).scanned <= Job(r).total_targets
        /\ Buckets(Job(r)) <= Job(r).scanned

CountersMonotone ==
    \A r \in JobRefs :
        /\ heap'[r].scanned >= Job(r).scanned
        /\ heap'[r].alive >= Job(r).alive
        /\ heap'[r].authenticated >= Job(r).authenticated
        /\ heap'[r].unreachable >= Job(r).unreachable
        /\ heap'[r].auth_failed >= Job(r).auth_failed
        /\ heap'[r].driver_not_supported >= Job(r).driver_not_supported

C6_CountersMonotoneAndBounded ==
    []CountersBounded /\ [][CountersMonotone]_vars

\* a status read of a running job with part of its targets scanned
C6_Witness ==
    /\ resp.op = "status"
    /\ resp.found # NoJob
    /\ Job(resp.found).state = "running"
    /\ Job(resp.found).scanned = 1
    /\ Job(resp.found).auth_failed = 1
    /\ Job(resp.found).total_targets = 2

(* C7: under fair scheduling every started job becomes finished, and with  *)
(* every target scanned unless the supervisor aborted at startup.          *)
C7_EveryJobFinishes ==
    \A r \in 1..MaxScanJobs :
        (r \in JobRefs) ~>
            /\ r \in JobRefs
            /\ Job(r).state = "finished"
            /\ sup[r].pc = "aborted" \/ Job(r).scanned = Job(r).total_targets

\* a finished job where one host failed and the other was still counted
C7_Witness ==
    \E r \in JobRefs :
        /\ Job(r).state = "finished"
        /\ sup[r].pc = "done"
        /\ Job(r).auth_failed = 1
        /\ Job(r).authenticated = 1
        /\ Job(r).scanned = Job(r).total_targets

(* C8 as stated: a job whose supervisor could not load the credentials is  *)
(* finished and has a non-empty errors[].                                  *)
C8_AbortPopulatesErrors ==
    \A r \in JobRefs :
        sup[r].pc = "aborted" =>
            /\ Job(r).state = "finished"
            /\ Job(r).errors # << >>

(* C9 as stated: results[] of a deleted job does not change any more.      *)
C9_NoAppendAfterDelete ==
    [][\A r \in deleted : heap'[r].results = heap[r].results]_vars

(* C10: a status lookup never returns a job older than the TTL, a registry *)
(* access leaves no such job in the registry or in the job list, and a job *)
(* leaves the registry only when it is older than the TTL or is the job    *)
(* of a DELETE request.                                                    *)
ExpiredJobsHidden ==
    /\ resp.op = "status" /\ resp.found # NoJob => Age(resp.found) <= JobTtl
    /\ resp.op = "jobs" => \A r \in resp.listed : Age(r) <= JobTtl
    /\ resp.op \in {"status", "delete", "jobs"} =>
         \A id \in DOMAIN registry : Age(registry[id]) <= JobTtl

OnlyExpiredJobsPurged ==
    \A id \in DOMAIN registry :
        id \notin DOMAIN registry' =>
            \/ Age(registry[id]) > JobTtl
            \/ resp'.op = "delete" /\ resp'.job_id = id

C10_TtlPurge ==
    []ExpiredJobsHidden /\ [][OnlyExpiredJobsPurged]_vars

\* a status lookup that misses a job because the TTL scan purged it
C10_Witness ==
    /\ resp.op = "status"
    /\ resp.found = NoJob
    /\ \E r \in JobRefs :
         /\ Job(r).job_id = resp.job_id
         /\ r \notin deleted
         /\ Age(r) = JobTtl + 1

(* C11: a start request with a CIDR shorter than /22 or with no            *)
(* credential id creates no job (so no job ever carries such a CIDR or an  *)
(* empty credential list), and a rejected request leaves the registry and  *)
(* the jobs as they were.                                                  *)
NoJobFromInvalidRequest ==
    \A r \in JobRefs :
        /\ Job(r).credential_ids # << >>
        /\ \A i \in 1..Len(Job(r).cidrs) :
             Job(r).cidrs[i].prefixlen >= MinPrefixLen

RejectionChangesNothing ==
    resp'.op = "rejected" =>
        /\ registry' = registry
        /\ heap' = heap
        /\ sup' = sup

C11_InvalidStartRejected ==
    []NoJobFromInvalidRequest /\ [][RejectionChangesNothing]_vars

\* a /21 is refused while the job of a /22 is in the registry
C11_Witness ==
    /\ resp.op = "rejected"
    /\ resp.request.credential_ids # << >>
    /\ \E i \in 1..Len(resp.request.cidrs) :
         resp.request.cidrs[i].prefixlen = MinPrefixLen - 1
    /\ \E id \in DOMAIN registry :
         Job(registry[id]).cidrs[1].prefixlen = MinPrefixLen

(* C12: total_targets of a job is the number of distinct host addresses    *)
(* of its CIDRs taken together, so two jobs whose CIDR lists hold the same *)
(* networks, in any order and however often, have the same total_targets.  *)
HostSet(cidrs) == UNION {SeqRange(Hosts(c)) : c \in SeqRange(cidrs)}

C12_TotalTargetsIsUnionSize ==
    /\ \A r \in JobRefs :
         Job(r).total_targets = Cardinality(HostSet(Job(r).cidrs))
    /\ \A r, q \in JobRefs :
         SeqRange(Job(r).cidrs) = SeqRange(Job(q).cidrs) =>
             Job(r).total_targets = Job(q).total_targets

\* one network spelled twice and a /31 that overlaps it in one host
C12_Witness ==
    \E r \in JobRefs :
        /\ Job(r).cidrs = << Cidr(Ip(10, 0, 0, 5), 30),
                             Cidr(Ip(10, 0, 0, 4), 31),
                             Cidr(Ip(10, 0, 0, 4), 30) >>
        /\ Job(r).total_targets = 3

\* the step in which thread t returns from get
GetReturns(t) == thread[t].pc = "get" /\ thread'[t].pc = "idle"

(* C13: a get(K) that read the time t returns the data of the latest       *)
(* set(K, ...) when that entry was not cleared since and expires after t,  *)
(* and a miss otherwise, whatever the threads did before.                  *)
C13_GetReturnsLatestLiveSet ==
    [][\A t \in Threads :
         GetReturns(t) =>
            LET key == thread[t].key
            IN  thread'[t].ret =
                  IF key \in DOMAIN written
                     /\ written[key].expires_at > thread[t].now
                  THEN written[key].data
                  ELSE Miss]_vars

\* after some time a get of one thread returns the data that the other
\* thread set last, with its full TTL ahead
C13_Witness ==
    \E key \in CacheKeys :
        /\ thread[1] = Returned("get", key, 2)
        /\ thread[2] = Returned("set", key, Miss)
        /\ key \in DOMAIN written
        /\ written[key] = CacheEntry(2, clock + MsPerSecond)
        /\ clock > 0

(* C14: a get(K) that finds an entry with expires_at <= now returns a miss *)
(* and takes K out of the cache, any other get leaves the cache as it is,  *)
(* and stats() lists exactly the keys that are in the cache.               *)
C14_ExpiredGetRemovesEntry ==
    [][\A t \in Threads :
         /\ GetReturns(t) =>
              LET key == thread[t].key
              IN  IF key \in DOMAIN cache
                     /\ cache[key].expires_at <= thread[t].now
                  THEN /\ thread'[t].ret = Miss
                       /\ DOMAIN cache' = DOMAIN cache \ {key}
                  ELSE cache' = cache
         /\ thread'[t] # thread[t] /\ thread'[t].op = "stats" =>
              thread'[t].keys = DOMAIN cache]_vars

\* a get at the very instant of expiry missed and removed the key, and the
\* stats() of the other thread does not list it
C14_Witness ==
    \E key \in CacheKeys :
        /\ thread[1] = Returned("get", key, Miss)
        /\ thread[2].pc = "idle" /\ thread[2].op = "stats"
        /\ key \notin thread[2].keys
        /\ key \notin DOMAIN cache
        /\ key \in DOMAIN written
        /\ written[key].expires_at = clock
        /\ clock > 0

\* The meaning of the query language, stated apart from the code: the set
\* of a leaf is what its query returned (nothing when no query resolved
\* it), and eval of an operation is built from the sets of its children.
Resolved(condition) ==
    condition.field \in QueryFields /\ ~condition.raises

LeafSet(condition) == IF Resolved(condition) THEN condition.devices ELSE {}

IsNot(operation) == Upper(operation.operation_type) = "NOT"

RECURSIVE Eval(_)
Eval(operation) ==
    LET ChildSets ==
            {LeafSet(operation.conditions[i]) :
                i \in 1..Len(operation.conditions)}
            \cup {Eval(operation.nested_operations[i]) :
                    i \in 1..Len(operation.nested_operations)}
        type == Upper(operation.operation_type)
    IN  CASE type = "AND" -> IF ChildSets = {} THEN {}
                             ELSE {d \in Devices : \A S \in ChildSets : d \in S}
          [] type \in {"OR", "NOT"} -> UNION ChildSets
          [] OTHER -> {}

RECURSIVE ResolvedLeaves(_)
ResolvedLeaves(operation) ==
    Cardinality({i \in 1..Len(operation.conditions) :
                    Resolved(operation.conditions[i])})
    + SumCounts([i \in 1..Len(operation.nested_operations) |->
                   [count |-> ResolvedLeaves(operation.nested_operations[i])]])

\* an operation of the request, its nested operations, and theirs
RECURSIVE Within(_)
Within(operation) ==
    {operation}
    \cup UNION {Within(operation.nested_operations[i]) :
                  i \in 1..Len(operation.nested_operations)}

Served == preview # NoPreview

(* C15 as stated: for a list [Q, R] of two operations that are not NOT,    *)
(* preview returns eval(Q) \cap eval(R), empty sets included.              *)
C15_TwoOperationsIntersect ==
    (Served /\ Len(operations) = 2
        /\ ~IsNot(operations[1]) /\ ~IsNot(operations[2]))
    => preview.devices = Eval(operations[1]) \cap Eval(operations[2])

(* C16: for a list [Q, NOT(P)] with Q not a NOT, preview returns           *)
(* eval(Q) \ eval(P), eval(P) being the union of the sets of the children  *)
(* of the NOT.                                                             *)
C16_NotSubtracts ==
    (Served /\ Len(operations) = 2
        /\ ~IsNot(operations[1]) /\ IsNot(operations[2]))
    => preview.devices = Eval(operations[1]) \ Eval(operations[2])

\* a NOT takes one of two devices away
C16_Witness ==
    /\ Served
    /\ Len(operations) = 2
    /\ ~IsNot(operations[1]) /\ IsNot(operations[2])
    /\ Eval(operations[1]) = {1, 2}
    /\ Eval(operations[2]) = {2}
    /\ preview.devices = {1}

(* C17: for a list that holds one NOT operation and nothing else, preview  *)
(* returns no device, whatever the conditions of the NOT match.            *)
C17_LoneNotIsEmpty ==
    (Served /\ Len(operations) = 1 /\ IsNot(operations[1]))
    => preview.devices = {} /\ preview.total_count = 0

\* a lone NOT whose conditions match both devices
C17_Witness ==
    /\ Served
    /\ Len(operations) = 1
    /\ IsNot(operations[1])
    /\ Eval(operations[1]) = {1, 2}

(* C18: executing one operation yields, for AND, the intersection of the   *)
(* sets of its children, and for OR and for NOT their union, nested        *)
(* operations being evaluated the same way; an operation without children  *)
(* yields no device.                                                       *)
C18_OperationSemantics ==
    Served =>
        \A i \in 1..Len(operations) :
            \A operation \in Within(operations[i]) :
                Upper(operation.operation_type) \in OperationTypes =>
                    ExecuteOperation(operation).devices = Eval(operation)

\* an AND of a leaf and of a nested OR that differ, served
C18_Witness ==
    /\ Served
    /\ Len(operations) = 1
    /\ operations[1].operation_type = "AND"
    /\ Len(operations[1].conditions) = 1
    /\ LeafSet(operations[1].conditions[1]) = {1, 2}
    /\ Len(operations[1].nested_operations) = 1
    /\ operations[1].nested_operations[1].operation_type = "OR"
    /\ preview.devices = {1}

(* C19: operations_executed of a preview is the number of leaf conditions, *)
(* at any depth of any top-level operation, that a query resolved.         *)
C19_CountsResolvedLeaves ==
    Served =>
        preview.operations_executed =
            SumCounts([i \in 1..Len(operations) |->
                         [count |-> ResolvedLeaves(operations[i])]])

\* two resolved leaves in nested operations, and one the query failed on
C19_Witness ==
    /\ Served
    /\ Len(operations) = 1
    /\ Len(operations[1].nested_operations) = 2
    /\ \E operation \in Within(operations[1]) :
         \E i \in 1..Len(operation.conditions) : operation.conditions[i].raises
    /\ preview.operations_executed = 2

StripUserinfo(url) == [url EXCEPT !.userinfo = NoUserinfo]

(* C20 as stated: whenever open_or_clone returns, the working tree on disk *)
(* has an origin whose URL equals the configured URL, userinfo stripped    *)
(* from both.                                                              *)
C20_ReturnedTreeMatchesConfiguredUrl ==
    gitResult.outcome = "returned" =>
        /\ disk.kind = "repo"
        /\ "origin" \in DOMAIN disk.remotes
        /\ StripUserinfo(disk.remotes["origin"])
             = StripUserinfo(repository.url)

Mismatches(found, configured) ==
    /\ found.kind = "repo"
    /\ "origin" \in DOMAIN found.remotes
    /\ NormalizeGitUrl(found.remotes["origin"]) # NormalizeGitUrl(configured)

(* C21 as stated: a sync that finds a working tree whose origin differs,   *)
(* after normalization, from the configured URL clones the configured URL  *)
(* at the configured branch; it never pulls into that tree.                *)
C21_MismatchedOriginIsRecloned ==
    (gitcmd.op # "none" /\ gitcmd.by = "sync"
        /\ Mismatches(gitcmd.found, gitcmd.configured))
    => /\ gitcmd.op = "clone"
       /\ NormalizeGitUrl(gitcmd.url) = NormalizeGitUrl(gitcmd.configured)
       /\ gitcmd.branch = "main"

UsableTokens(name) ==
    {c \in credstore : c.name = name /\ c.type = "token" /\ ~ c.expired
                       /\ c.decrypts}

(* C24 as stated: when the row was created or updated with a               *)
(* credential_name, the URL a sync clones or pulls from over HTTP(S)       *)
(* carries the username and token of the stored token credential of that   *)
(* name; a URL of another scheme carries no injected credentials.          *)
C24_NamedCredentialIsInjected ==
    (gitcmd.op # "none" /\ gitcmd.by = "sync") =>
        /\ \A c \in UsableTokens(gitcmd.credential_name) :
               gitcmd.configured.scheme \in {"http", "https"} =>
                   gitcmd.url.userinfo
                       = << UrlQuote(c.username), UrlQuote(c.password) >>
        /\ gitcmd.configured.scheme \notin {"http", "https"} =>
               gitcmd.url = gitcmd.configured

(* C25 as stated: no response of the repository endpoints carries the      *)
(* token stored for a repository.                                         *)
C25_NoResponseCarriesToken ==
    \A body \in repoResp.bodies :
        "token" \in DOMAIN body => ~ Truthy(body["token"])

(* C25, amended: the responses of list, get, create, update and selected   *)
(* have no token field; the response of get-for-edit is the row as it is   *)
(* stored, token included.                                                 *)
C25_TokenOnlyInEditResponse ==
    \A body \in repoResp.bodies :
        /\ repoResp.op # "edit" => "token" \notin DOMAIN body
        /\ repoResp.op = "edit" =>
               /\ body["id"] \in DOMAIN table
               /\ body = table[body["id"]]

C25_Witness ==
    /\ repoResp.op = "update"
    /\ repoResp.status = 200
    /\ \E body \in repoResp.bodies : Truthy(table[body["id"]]["token"])

(***************************************************************************)
(* Onboarding validates the devices against the results of the job.        *)
(***************************************************************************)
ResultIps(job_id) ==
    UNION {{heap[r].results[i].ip : i \in 1..Len(heap[r].results)} :
              r \in {q \in JobRefs : heap[q].job_id = job_id}}

Matching(job_id, devices) ==
    {i \in DOMAIN devices : devices[i].ip \in ResultIps(job_id)}

OnlyMatchingDevicesActedOn ==
    /\ \A i \in DOMAIN sms :
         sms[i].by = "scan" => sms[i].ip \in ResultIps(sms[i].scan)
    /\ onbResp.status # 0 /\ served.op = "onboard" =>
         LET matching == Matching(served.job_id, served.request.devices)
         IN  /\ \A i \in DOMAIN served.devices_list :
                  served.devices_list[i].primary_ip4
                      \in ResultIps(served.job_id)
             /\ onbResp.status = 200 =>
                  /\ onbResp.accepted = Cardinality(matching)
                  /\ onbResp.inventory_path # NoPath =>
                       files[onbResp.inventory_path].devices
                           = served.devices_list
             /\ onbResp.status \in {400, 404} <=>
                  \/ served.job_id \notin DOMAIN registry
                  \/ matching = {}

RejectionCallsNothing ==
    onbResp'.status \in {400, 404} => sms' = sms /\ files' = files

\* C26: only the submitted devices whose IP is that of a result of the
\* referenced job reach the SMS or the inventory, accepted counts exactly
\* them, and a request for an unknown job or with no such device is
\* rejected with no SMS call and no file written.
C26_OnlyScannedDevicesOnboarded ==
    []OnlyMatchingDevicesActedOn /\ [][RejectionCallsNothing]_vars

\* a request naming a device the job never found was served for the others
C26_Witness ==
    /\ onbResp.status = 200
    /\ served.op = "onboard"
    /\ onbResp.accepted < Len(served.request.devices)
    /\ Len(sms) > 0

(***************************************************************************)
(* The submissions of one onboarding request.                              *)
(***************************************************************************)
SubmissionsOf(rid) ==
    SelectSeq(sms, LAMBDA m : m.by = "scan" /\ m.rid = rid)

ValidCisco(job_id, devices) ==
    SelectSeq(devices, LAMBDA d : /\ d.ip \in ResultIps(job_id)
                                  /\ d.device_type = "cisco")

\* C27: when the request is answered, every valid Cisco device was
\* submitted to the SMS exactly once, in order, whatever became of the
\* submissions before it; cisco_queued is the number of submissions that
\* returned a job identifier and job_ids lists exactly those identifiers.
C27_FailedSubmissionSparesSiblings ==
    onbResp.status \in {200, 500} /\ served.op = "onboard" =>
        LET mine   == SubmissionsOf(served.rid)
            cisco  == ValidCisco(served.job_id, served.request.devices)
            queued == SelectSeq(mine, LAMBDA m : m.outcome = "queued")
        IN  /\ Len(mine) = Len(cisco)
            /\ \A i \in DOMAIN mine : /\ mine[i].ip = cisco[i].ip
                                       /\ mine[i].outcome # "pending"
            /\ onbResp.status = 200 =>
                 /\ onbResp.cisco_queued = Len(queued)
                 /\ onbResp.job_ids = [i \in DOMAIN queued |-> queued[i].job_id]

\* the first submission failed, the second was made and returned an id
C27_Witness ==
    /\ onbResp.status = 200
    /\ served.op = "onboard"
    /\ LET mine == SubmissionsOf(served.rid)
       IN  /\ Len(mine) = 2
           /\ mine[1].outcome = "raised"
           /\ mine[2].outcome = "queued"
           /\ onbResp.cisco_queued = 1

ValidLinux(job_id, devices) ==
    SelectSeq(devices, LAMBDA d : /\ d.ip \in ResultIps(job_id)
                                  /\ d.device_type = "linux")

\* the content the request asks for
Rendered(job_id, request) ==
    LET linux == ValidLinux(job_id, request.devices)
    IN  Render(request.inventory_template_id,
               [i \in DOMAIN linux |-> InventoryDevice(linux[i])])

\* the request just answered is the one whose commit or push failed
GitFailed ==
    /\ onbResp.status # 0
    /\ served.op = "onboard"
    /\ gitcmd.op # "none"
    /\ gitcmd.by = "onboard"
    /\ gitcmd.rid = served.rid
    /\ gitcmd.done
    /\ ~ gitcmd.ok

\* C29: when the commit or the push failed after the file was written, the
\* request is answered with success, linux_added and the path of the file,
\* and the file is there with the rendered content.
C29_GitFailureKeepsFile ==
    GitFailed =>
        /\ onbResp.status = 200
        /\ onbResp.linux_added
              = Len(ValidLinux(served.job_id, served.request.devices))
        /\ onbResp.inventory_path # NoPath
        /\ onbResp.inventory_path \in DOMAIN files
        /\ files[onbResp.inventory_path]
              = Rendered(served.job_id, served.request)

\* a commit went through and the push after it failed
C29_Witness ==
    /\ GitFailed
    /\ gitcmd.op = "push"
    /\ served.request.auto_commit
    /\ onbResp.linux_added = 1

\* the request just answered asked for a commit and wrote into a working
\* tree
CommittingCall ==
    /\ onbResp.status = 200
    /\ served.op = "onboard"
    /\ served.request.auto_commit
    /\ served.found.kind = "repo"

NewCommits ==
    LET history == CommitsIn(commits, served.dir)
    IN  SubSeq(history, served.before + 1, Len(history))

\* the commit differs from its parent in the file
Touches(history, n, name) ==
    \/ n = 1
    \/ name \notin DOMAIN history[n - 1].tree
    \/ history[n - 1].tree[name] # history[n].tree[name]

\* C30 as stated: after a successful call with auto_commit into a working
\* tree there is exactly one new commit, it touches the written file, and
\* its message is commit_message when one was supplied, else the basename.
C30_ExactlyOneCommit ==
    CommittingCall =>
        LET history == CommitsIn(commits, served.dir)
            name    == onbResp.inventory_path.name
        IN  /\ Len(NewCommits) = 1
            /\ name \in DOMAIN history[Len(history)].tree
            /\ Touches(history, Len(history), name)
            /\ history[Len(history)].message
                 = IF served.request.commit_message # None
                   THEN served.request.commit_message
                   ELSE Basename(name)

\* C30, amended: unless the commit failed, in which case there is no new
\* commit, there is exactly one new commit, its tree holds the written
\* file with the rendered content, and its message is commit_message when
\* that is not empty, else the basename of the file.
C30_OneCommitUnlessCommitFailed ==
    CommittingCall =>
        IF GitFailed /\ gitcmd.op = "commit" THEN NewCommits = << >>
        ELSE LET name == onbResp.inventory_path.name
             IN  /\ Len(NewCommits) = 1
                 /\ name \in DOMAIN NewCommits[1].tree
                 /\ NewCommits[1].tree[name]
                      = Rendered(served.job_id, served.request)
                 /\ NewCommits[1].message
                      = IF served.request.commit_message \in {None, ""}
                        THEN Basename(name)
                        ELSE served.request.commit_message

\* a second commit of the same file, made with an empty commit_message
C30_Witness ==
    /\ CommittingCall
    /\ ~ GitFailed
    /\ served.before = 1
    /\ served.request.commit_message = ""
    /\ Len(NewCommits) = 1

(***************************************************************************)
(* The environment around the Git commands.                                *)
(***************************************************************************)
\* C22: when a Git command run inside a scoped SSL block is over, whether
\* it succeeded or failed, GIT_SSL_NO_VERIFY, GIT_SSL_CA_INFO and
\* GIT_SSL_CERT have the values they had when the block was entered.
C22_SslEnvironmentRestored ==
    gitcmd.op # "none" /\ gitcmd.done =>
        \A k \in GitSslVars : environ[k] = gitcmd.entered[k]

(***************************************************************************)
(* Git commands on one working tree.                                       *)
(***************************************************************************)
InGit(c) == call[c].pc \in BlockingSections

\* the working tree the Git command of the request runs in
PathOf(c) == IF call[c].op = "sync" THEN call[c].path ELSE call[c].dir

\* C23: no two requests have a clone, pull, commit or push in progress on
\* the same working-tree path at the same time.
C23_GitOperationsExclusive ==
    \A c1, c2 \in Clients :
        c1 # c2 /\ InGit(c1) /\ InGit(c2) => PathOf(c1) # PathOf(c2)

\* a pull is in progress in the working tree an onboarding request, which
\* waits for the SMS, is about to commit into
C23_Witness ==
    \E c1, c2 \in Clients :
        /\ call[c1].op = "sync"
        /\ call[c1].pc = "pull"
        /\ call[c2].op = "onboard"
        /\ call[c2].pc = "sms"
        /\ call[c2].request.auto_commit
        /\ SubPath(table[call[c2].request.git_repository_id]) = call[c1].path

(***************************************************************************)
(* The vault gives back what was put in.                                   *)
(***************************************************************************)
DecryptsToSupplied ==
    /\ DOMAIN supplied = DOMAIN credentialRows
    /\ \A id \in DOMAIN credentialRows :
         Decrypt(credentialRows[id].password_encrypted) = supplied[id]
    /\ vaultResp.op = "decrypt" /\ vaultResp.status = 200 =>
         vaultResp.value = supplied[vaultResp.id]

UpdateWithoutPasswordKeepsCiphertext ==
    /\ vaultResp'.op = "update"
    /\ vaultResp'.status = 200
    /\ vaultResp'.sent \in {None, ""}
    => credentialRows'[vaultResp'.id].password_encrypted
         = credentialRows[vaultResp'.id].password_encrypted

\* C31: the stored ciphertext of every credential decrypts to the password
\* last supplied for it, by its create or by an update that carried one,
\* and an update that carried none leaves the ciphertext as it was.
C31_DecryptReturnsLastSupplied ==
    []DecryptsToSupplied /\ [][UpdateWithoutPasswordKeepsCiphertext]_vars

\* a password was replaced by an update, another update without a password
\* followed, and the decrypt returned the replacement
C31_Witness ==
    /\ vaultResp.op = "decrypt"
    /\ vaultResp.status = 200
    /\ vaultResp.value = "pw2"
    /\ credentialRows[vaultResp.id].type = "tacacs"
    /\ credentialRows[vaultResp.id].username = "admin"
    /\ credentialRows[vaultResp.id].name = "core"

(***************************************************************************)
(* Job ids within the registry.                                            *)
(***************************************************************************)
\* C32: a start never assigns a job_id that is still in the registry: the
\* new job gets a key of its own and every job of the registry stays under
\* its key.
C32_StartAssignsFreshId ==
    [][Len(heap') > Len(heap) =>
          /\ heap'[Len(heap')].job_id \notin DOMAIN registry
          /\ \A id \in DOMAIN registry : registry'[id] = registry[id]]_vars

(***************************************************************************)
(* The order of the steps of one host worker.                              *)
(***************************************************************************)
IsPrefix(s, t) == Len(s) <= Len(t) /\ \A k \in 1..Len(s) : s[k] = t[k]

Accepted(tried) == \E k \in 1..Len(tried) : tried[k] = "accepted"

\* the step in which the pings of worker i returned with an answer
FoundAlive(r, i) ==
    worker[r][i].pc = "ping" /\ heap'[r].alive = heap[r].alive + 1

\* the step in which worker i counted its host unreachable
FoundUnreachable(r, i) ==
    /\ worker[r][i].pc = "ping"
    /\ worker'[r][i].pc = "done"
    /\ heap'[r].unreachable = heap[r].unreachable + 1

TrialsInOrder(r, i) ==
    LET before == worker[r][i]
        after  == worker'[r][i]
    IN  /\ before.pc \in {"idle", "queued", "ping"} => before.tried = << >>
        /\ after.tried # before.tried \/ (after.pc = "auth" /\ before.pc # "auth")
             => /\ FoundAlive(r, i) \/ before.pc = "auth"
                /\ ~Accepted(before.tried)
                /\ IsPrefix(before.tried, after.tried)
        /\ FoundUnreachable(r, i) => after.tried = << >>
        /\ before.pc = "done" => after = before
        /\ Accepted(after.tried) => after.pc = "done"

\* C33: a worker decrypts and tries credentials only from the step on in
\* which its pings found the host alive, tries none for a host it counted
\* unreachable, and tries none after the first credential was accepted.
C33_ProbeBeforeCredentials ==
    [][\A r \in JobRefs : \A i \in DOMAIN worker[r] : TrialsInOrder(r, i)]_vars

\* one host was counted unreachable and took no credential; the other was
\* alive, had its first credential rejected and its second accepted
C33_Witness ==
    \E r \in JobRefs :
        \E i, j \in DOMAIN worker[r] :
            /\ worker[r][i].pc = "done"
            /\ worker[r][i].tried = << >>
            /\ Job(r).unreachable = 1
            /\ Job(r).alive = 1
            /\ worker[r][j].tried = << "rejected", "accepted" >>

(***************************************************************************)
(* A finished job is at rest.                                              *)
(***************************************************************************)
\* the workers of job r that wait for a permit, ping or log in
Running(r) ==
    {i \in DOMAIN worker[r] : worker[r][i].pc \in {"queued", "ping", "auth"}}

FinishedAtRest(r) ==
    /\ heap'[r].state = "finished" /\ Job(r).state # "finished"
         => Running(r) = {} /\ worker'[r] = worker[r]
    /\ Job(r).state = "finished"
         => /\ Running(r) = {}
            /\ heap'[r] = Job(r)
            /\ worker'[r] = worker[r]

\* C34: when a job becomes finished none of its host workers is running,
\* and from then on its counters and results[] stay as they are and no
\* worker of the job takes a step.
C34_FinishedJobIsFrozen ==
    [][\A r \in JobRefs : FinishedAtRest(r)]_vars

\* a finished job, read after both of its workers had ended, one of them
\* with a result
C34_Witness ==
    /\ resp.op = "status"
    /\ resp.found # NoJob
    /\ Job(resp.found).state = "finished"
    /\ Len(Job(resp.found).results) = 1
    /\ Job(resp.found).scanned = 2
    /\ \A i \in DOMAIN worker[resp.found] : worker[resp.found][i].pc = "done"

(***************************************************************************)
(* What a status read can observe.  get_scan_status has no await after     *)
(* get_job returned, so it reports the job as it is in one state.          *)
(***************************************************************************)
\* C35: in every state len(results) equals authenticated, and alive is at
\* least authenticated + auth_failed, with equality once the job is
\* finished and its supervisor did not abort.
C35_ResultsMatchAuthenticated ==
    \A r \in JobRefs :
        /\ Len(Job(r).results) = Job(r).authenticated
        /\ Job(r).alive >= Job(r).authenticated + Job(r).auth_failed
        /\ Job(r).state = "finished" /\ sup[r].pc # "aborted"
             => Job(r).alive = Job(r).authenticated + Job(r).auth_failed

\* a status read of a running job: one host has its result, the other is
\* alive and still under trial
C35_Witness ==
    /\ resp.op = "status"
    /\ resp.found # NoJob
    /\ Job(resp.found).state = "running"
    /\ Job(resp.found).alive = 2
    /\ Job(resp.found).authenticated = 1
    /\ Job(resp.found).auth_failed = 0
    /\ Len(Job(resp.found).results) = 1

(***************************************************************************)
(* Credentials a worker passes over.                                       *)
(***************************************************************************)
Skipped(outcome) == outcome \in {"absent", "decrypt_error"}

\* every credential of the list was passed over
AllSkipped(tried, cred_ids) ==
    /\ Len(tried) = Len(cred_ids)
    /\ \A k \in 1..Len(tried) : Skipped(tried[k])

SkipsWithoutAttempt(r, i) ==
    LET w        == worker[r][i]
        cred_ids == Job(r).credential_ids
    IN  /\ \A k \in 1..Len(w.tried) :
             /\ w.tried[k] = "absent" <=> cred_ids[k] \notin sup[r].credentials
             /\ w.tried[k] \in {"absent", "decrypt_error", "rejected", "accepted"}
        /\ w.pc = "auth" =>
             /\ Len(w.tried) < Len(cred_ids)
             /\ cred_ids[Len(w.tried) + 1] \in sup[r].credentials
        /\ w.pc = "done" /\ w.tried # << >> /\ ~Accepted(w.tried) =>
             Len(w.tried) = Len(cred_ids)

SkippedHostIsCounted(r, i) ==
    /\ worker[r][i].pc # "done"
    /\ worker'[r][i].pc = "done"
    /\ FoundAlive(r, i) \/ worker[r][i].pc = "auth"
    /\ AllSkipped(worker'[r][i].tried, Job(r).credential_ids)
    => /\ heap'[r].auth_failed = Job(r).auth_failed + 1
       /\ heap'[r].scanned = Job(r).scanned + 1
       /\ heap'[r].results = Job(r).results
       /\ heap'[r].unreachable = Job(r).unreachable
       /\ heap'[r].authenticated = Job(r).authenticated

\* C36: a supplied credential that is not in the list loaded at the start
\* of the scan, or whose password does not decrypt, is passed over with no
\* authentication attempt and the worker goes on to the next one; a
\* reachable host all of whose credentials were passed over is counted as
\* auth_failed and as scanned.
C36_SkippedCredentialsNeverTried ==
    /\ [](\A r \in JobRefs : \A i \in DOMAIN worker[r] : SkipsWithoutAttempt(r, i))
    /\ [][\A r \in JobRefs : \A i \in DOMAIN worker[r] :
            SkippedHostIsCounted(r, i)]_vars

\* a reachable host: its first credential was not in the loaded list, the
\* password of the second did not decrypt, and it was counted auth_failed
C36_Witness ==
    \E r \in JobRefs :
        \E i \in DOMAIN worker[r] :
            /\ worker[r][i].pc = "done"
            /\ worker[r][i].tried = << "absent", "decrypt_error" >>
            /\ Job(r).auth_failed = 1
            /\ Job(r).scanned = 1
            /\ Job(r).alive = 1

(***************************************************************************)
(* Where an accepted device goes.                                          *)
(***************************************************************************)
\* the scan of job_id has a result for ip with this device_type
ClassifiedAs(job_id, ip, device_type) ==
    \E r \in JobRefs :
        /\ heap[r].job_id = job_id
        /\ \E n \in 1..Len(heap[r].results) :
             /\ heap[r].results[n].ip = ip
             /\ heap[r].results[n].device_type = device_type

\* the onboarding calls in hand: those in flight and the one just served
OnboardCalls ==
    {k \in {call[c] : c \in Clients} \cup {served} : k.op = "onboard"}

\* C37 as stated: every device submitted to the SMS was classified cisco by
\* the scan of the referenced job and every device written to the Linux
\* inventory was classified linux by it.
C37_RoutingFollowsScanResult ==
    /\ \A i \in DOMAIN sms :
         sms[i].by = "scan" => ClassifiedAs(sms[i].scan, sms[i].ip, "cisco")
    /\ \A k \in OnboardCalls :
         \A i \in DOMAIN k.devices_list :
             ClassifiedAs(k.job_id, k.devices_list[i].primary_ip4, "linux")

\* C37 amended: every device an onboarding request submits to the SMS is a
\* device of that request whose ip has a ScanResult in the referenced job
\* and whose device_type in the request is cisco, and every device it
\* writes to the Linux inventory is such a device whose device_type in the
\* request is linux; an accepted device of any other device_type goes
\* nowhere.  The ScanResult decides whether a device is accepted, the
\* request where it goes.
C37_RoutingFollowsRequest ==
    \A k \in OnboardCalls :
        LET mine  == SubmissionsOf(k.rid)
            cisco == ValidCisco(k.job_id, k.request.devices)
            linux == ValidLinux(k.job_id, k.request.devices)
        IN  /\ Len(mine) <= Len(cisco)
            /\ \A i \in DOMAIN mine :
                 /\ mine[i].scan = k.job_id
                 /\ mine[i].ip = cisco[i].ip
                 /\ cisco[i].device_type = "cisco"
            /\ k.devices_list # << >> =>
                 k.devices_list = [i \in DOMAIN linux |-> InventoryDevice(linux[i])]
            /\ \A i \in DOMAIN k.devices_list :
                 linux[i].device_type = "linux"

\* a request was served whose device the scan had classified cisco and the
\* request called linux: it is in the inventory file, next to a submission
\* of a device both called cisco
C37_Witness ==
    /\ onbResp.status = 200
    /\ served.op = "onboard"
    /\ Len(SubmissionsOf(served.rid)) = 1
    /\ Len(served.devices_list) = 1
    /\ ClassifiedAs(served.job_id, served.devices_list[1].primary_ip4, "cisco")
    /\ onbResp.inventory_path # NoPath
    /\ files[onbResp.inventory_path].devices = served.devices_list

(***************************************************************************)
(* A NOT at the head of the list.                                          *)
(***************************************************************************)
\* C38: for a list [NOT(P), Q] with Q not a NOT, preview returns eval(Q):
\* the NOT leaves the accumulated set empty, and an operation applied to an
\* empty accumulated set is taken for the first.
C38_LeadingNotIsIgnored ==
    (Served /\ Len(operations) = 2
        /\ IsNot(operations[1]) /\ ~IsNot(operations[2]))
    => preview.devices = Eval(operations[2])

\* the NOT names a device that the second operation returns, and the
\* preview has it
C38_Witness ==
    /\ Served
    /\ Len(operations) = 2
    /\ IsNot(operations[1]) /\ ~IsNot(operations[2])
    /\ Eval(operations[1]) = {2}
    /\ Eval(operations[2]) = {1, 2}
    /\ preview.devices = {1, 2}

(***************************************************************************)
(* What a clear removes.                                                   *)
(***************************************************************************)
\* key is namespace, then a colon, then anything
InNamespace(key, namespace) ==
    /\ Len(key) >= Len(namespace) + 1
    /\ \A n \in 1..Len(namespace) : key[n] = namespace[n]
    /\ key[Len(namespace) + 1] = ":"

\* the step in which thread t returns from clear_namespace
ClearReturns(t) == thread[t].pc = "clear" /\ thread'[t].pc = "idle"

\* the step in which thread t ran clear_all
ClearedAll(t) == thread'[t] # thread[t] /\ thread'[t].op = "clear_all"

\* C39: clear_namespace(ns) removes exactly the entries whose key is ns
\* followed by ':' and anything, and leaves every other entry as it was,
\* data and expiry included; clear_all() leaves the cache empty.
C39_ClearRemovesExactlyNamespace ==
    [][\A t \in Threads :
         /\ ClearReturns(t) =>
              /\ DOMAIN cache' =
                    {k \in DOMAIN cache : ~InNamespace(k, thread[t].key)}
              /\ \A k \in DOMAIN cache' : cache'[k] = cache[k]
         /\ ClearedAll(t) => cache' = << >>]_vars

\* repo:1 was cleared after a stats() had listed repo:1:c, repo:10:c and
\* repo:1: the first is gone, the other two are there
C39_Witness ==
    \E t, u \in Threads :
        /\ thread[t] = Returned("clear", Repo1, Miss)
        /\ DOMAIN cache = { Key(Repo10, << << "c" >> >>), Repo1 }
        /\ thread[u].op = "stats"
        /\ thread[u].keys = NamespaceKeys

=============================================================================
